---- MODULE Spec2Model ----
(***************************************************************************)
(* Verification model of MyRPC: the client's pending-call table, send path *)
(* and receive loop, the server's per-connection request loop with         *)
(* concurrent handlers and handle timeout, XClient.Broadcast, the registry *)
(* and its heartbeats, the consistent-hash ring, the XClient pool, the     *)
(* Option negotiation, the registry-backed and the manual discovery, and   *)
(* dialTimeout.                                                            *)
(*                                                                         *)
(* The subsystems share this module; each has its own specification        *)
(* (SpecClient, SpecServer, SpecBroadcast, SpecRegistry, SpecRing,         *)
(* SpecPool, SpecConn, SpecDiscovery, SpecMultiDiscovery, SpecDial) that   *)
(* moves only its own variables and keeps the others at their constructed  *)
(* values.                                                                 *)
(***************************************************************************)
EXTENDS Integers, Sequences, FiniteSets, TLC

(* ------------------------------ bounds --------------------------------- *)
\* number of caller goroutines that issue one Client.Call each
NumCalls == 2
\* number of responses the peer puts on the connection
MaxResp == 2
\* buffSize the callers pass to Client.Call: the capacity of each Call.Done
BuffSize == 1
\* number of Client.Close invocations
MaxClose == 2

\* number of requests the server reads on one connection
MaxReq == 2

\* largest number of endpoints discovery hands to Broadcast
MaxServers == 3

\* number of distinct addresses that send heartbeats to the registry
MaxAddr == 2
\* last instant of the registry's clock
MaxTime == 3
\* largest registry timeout, in clock units
MaxRegTimeout == 2

\* replicateCount of the hash ring (ring entries per backend)
ReplicateCount == 2
\* number of operations applied to one hash ring
MaxRingOps == 5

\* number of goroutines that call XClient.dial
NumDialers == 2
\* number of dial calls they make altogether
MaxDialCalls == 4

\* number of connections the listener accepts
MaxConns == 3
\* number of requests served on an accepted connection
MaxConnReqs == 1

\* last instant of the discovery's clock
MaxDiscTime == 3
\* largest refresh timeout of the discovery, in clock units
MaxTTL == 2
\* largest number of comma-separated items in X-Myrpc-Servers
MaxRawLen == 2

\* number of Dial invocations
MaxDials == 2

\* number of calls made on one MultiServersDiscovery
MaxMsOps == 5

Callers == 1..NumCalls
\* identity of the receive goroutine as a lock holder
RecvId == 0 - 1

(* ------------------------------ client state --------------------------- *)
VARIABLES
    pending,      \* Client.pending : Seq -> call (a caller id)
    seq,          \* Client.seq
    closing,      \* Client.closing
    shutdown,     \* Client.shutdown
    sending,      \* Client.sending mutex: 0 free, a caller id, or RecvId
    mu,           \* Client.mu mutex: 0 free or RecvId (the other critical sections are atomic)
    callSeq,      \* Call.Seq per call
    callError,    \* Call.Error per call
    callReply,    \* value decoded into Call.Reply per call (0 = untouched)
    doneCh,       \* number of items queued in Call.Done per call
    fired,        \* number of sends on Call.Done per call, ever
    cpc,          \* position of each caller inside Client.Call / Go / send
    cres,         \* value returned by Client.Call
    wire,         \* request headers (and bodies) that reached the peer, in write order
    respCount,    \* number of responses the client has read from the peer
    peerClosed,   \* the peer closed the connection and the client has read EOF
    ccCloses,     \* number of Close calls on the client's codec
    closeCalls,   \* number of Client.Close invocations
    closeRet,     \* value returned by the last Client.Close
    rpc,          \* position of the receive goroutine
    rh,           \* header read by receive (local h)
    rcall,        \* call returned by removeCall in receive (0 = nil)
    rerr,         \* local err of receive
    termTodo      \* calls terminateCalls still has to visit in its range loop

clientVars == <<pending, seq, closing, shutdown, sending, mu, callSeq, callError,
                callReply, doneCh, fired, cpc, cres, wire, respCount,
                peerClosed, ccCloses, closeCalls, closeRet, rpc, rh, rcall, rerr,
                termTodo>>

(* ------------------------------ server state --------------------------- *)
\* One connection served by Server.serverCodec.  Requests get the Seqs 1, 2, ...
\* of the client that wrote them; handler tasks are named by the Seq of their
\* request.
VARIABLES
    handleTimeout, \* opt.HandleTimeout != 0
    nreq,          \* number of request headers read off the connection
    bodyPending,   \* body frame that is next on the stream: "none", "ok" or "bad"
    spc,           \* position of serverCodec's loop
    sreq,          \* the request the loop holds (req.h.Seq, req.h.Error)
    out,           \* frames written to the connection, in order
    srvSending,    \* the sending mutex of serverCodec: its holder
    wg,            \* the WaitGroup counter
    srvClosed,     \* serverCodec has called cc.Close
    hpc,           \* position of each handleRequest goroutine
    gpc,           \* position of each goroutine that runs req.svc.call
    gres,          \* result of req.svc.call: "none", "ok" or "err"
    ctx,           \* state of each handleRequest context: "live", "cancelled", "timeout"
    hErr,          \* req.h.Error of each dispatched request
    timedOutRunning \* requests whose timer expired while req.svc.call was running

serverVars == <<handleTimeout, nreq, bodyPending, spc, sreq, out, srvSending, wg,
                srvClosed, hpc, gpc, gres, ctx, hErr, timedOutRunning>>

(* ------------------------------ XClient.Broadcast state ---------------- *)
\* One Broadcast invocation; the per-endpoint goroutines are named by the index
\* of their endpoint in the list GetAll returned.
VARIABLES
    servers,      \* number of endpoints GetAll returned (the list is 1..servers)
    replyNil,     \* the caller passed reply == nil
    bctx,         \* the context derived by context.WithCancel: "live" or "cancelled"
    bpc,          \* position of each per-endpoint goroutine
    berr,         \* err returned by xc.call in each goroutine: "none", "nil", "fail", "ctx"
    bmu,          \* the local mutex mu of Broadcast: 0 free or the holder
    e,            \* Broadcast's e: 0 for nil, or the endpoint whose error was recorded
    replyDone,    \* Broadcast's replyDone
    reply,        \* the caller's reply: 0 untouched, or the endpoint whose reply it holds
    bwg,          \* the WaitGroup counter
    bret          \* what Broadcast returned: Running while it runs, else the value of e

bcastVars == <<servers, replyNil, bctx, bpc, berr, bmu, e, replyDone, reply, bwg, bret>>

(* ------------------------------ registry state ------------------------ *)
\* One MyRegistry behind its HTTP handler.  Addresses are 1..MaxAddr in
\* lexicographic order; 0 stands for the empty string.
VARIABLES
    regTimeout,   \* r.timeout
    now,          \* time.Now() of the registry's host
    regServers,   \* r.servers: address -> start of its ServerItem
    regReq,       \* the last request served: its method and its X-Myrpc-Server header
    regStatus,    \* status of the response to the last request
    regAnswer,    \* X-Myrpc-Servers of the response to the last request
    regAt,        \* instant at which the last request was served
    lastBeat      \* instant of the last heartbeat putServer stored per address, or NoBeat

regVars == <<regTimeout, now, regServers, regReq, regStatus, regAnswer, regAt, lastBeat>>

(* ------------------------------ hash ring state ----------------------- *)
VARIABLES
    ringNodes,    \* hr.nodes: ring entry (hash) -> backend
    ringSorted,   \* hr.sortedNodes
    ringMembers,  \* backends added and not removed since
    ringOps,      \* number of operations applied so far
    ringLast      \* the last operation: its name, its argument, what it returned

ringVars == <<ringNodes, ringSorted, ringMembers, ringOps, ringLast>>

(* ------------------------------ XClient pool state -------------------- *)
\* One XClient.  Clients are named 1, 2, ... in the order XDial creates them.
VARIABLES
    xmu,          \* xc.mu: 0 free, or its holder
    xclients,     \* xc.clients: address -> client
    xpc,          \* position of each goroutine in dial: "idle", "xdial", "ret"
    xaddr,        \* rpcAddr of the dial each goroutine runs or ran last
    xret,         \* what that dial returned: a client, or DialErr
    xcalls,       \* number of dial calls each goroutine has started
    nextClient,   \* name of the client the next successful XDial creates
    clAddr,       \* address each client was dialed to (0: not created)
    clClosing,    \* client.closing of each client
    clShutdown    \* client.shutdown of each client

poolVars == <<xmu, xclients, xpc, xaddr, xret, xcalls, nextClient, clAddr, clClosing,
              clShutdown>>

(* ------------------------------ negotiation state --------------------- *)
\* The connections Server.Accept hands to ServerConn, each with the peer that
\* opened it.
VARIABLES
    cliOpt,       \* the Option a peer passed to NewClient (NoOption: none, or a foreign peer)
    cliRes,       \* what NewClient returned: "none", "ok", "codecErr"
    preamble,     \* what the peer put on the connection before any request
    srvConn,      \* ServerConn of the connection: "none", "loop", "rejected", "served"
    srvOpt,       \* the Option ServerConn decoded
    connRead,     \* number of requests the server read on the connection
    connWritten,  \* number of responses the server wrote on the connection
    connClosed    \* the server closed the connection

connVars == <<cliOpt, cliRes, preamble, srvConn, srvOpt, connRead, connWritten, connClosed>>

(* ------------------------------ discovery state ----------------------- *)
\* One MyRegistryDiscovery.
VARIABLES
    dnow,         \* time.Now() of the discovery's host
    dTimeout,     \* d.timeout
    dServers,     \* d.servers
    dLastUpdate,  \* d.lastUpdate (ZeroTime until the first update)
    dIndex,       \* d.index
    dLast         \* the last call: its name, what the registry answered, what it returned

discVars == <<dnow, dTimeout, dServers, dLastUpdate, dIndex, dLast>>

(* ------------------------------ dialTimeout state --------------------- *)
\* Dial invocations, each with the goroutine it starts for f (NewClient).
VARIABLES
    dtOpt,        \* the Option parseOptions returned: whether ConnectTimeout != 0, and the codec
    dtpc,         \* position of dialTimeout: "start", "wait", "returned"
    dtf,          \* position of the goroutine: "none", "run", "send" (at ch <-), "done"
    dtfRes,       \* what f returned: "none", "client" or an error
    dtRet,        \* what dialTimeout returned: a client or not, and the error
    dtConn        \* the connection of net.DialTimeout: "none", "open", "closed"

dialVars == <<dtOpt, dtpc, dtf, dtfRes, dtRet, dtConn>>

(* ------------------------------ MultiServersDiscovery state ----------- *)
VARIABLES
    msServers,    \* d.servers
    msIndex,      \* d.index
    msHist,       \* list positions the RoundRobinSelect calls returned since the list was set
    msLast,       \* the last call: its name, its mode, what it returned
    msOps         \* number of calls made so far

msdVars == <<msServers, msIndex, msHist, msLast, msOps>>

\* the subsystems added to the client, the server connection and Broadcast
restVars == <<regVars, ringVars, poolVars, connVars, discVars, dialVars, msdVars>>

\* what each subsystem leaves alone
notClient == <<serverVars, bcastVars, restVars>>
notServer == <<clientVars, bcastVars, restVars>>
notBcast == <<clientVars, serverVars, restVars>>
notReg ==
    <<clientVars, serverVars, bcastVars, ringVars, poolVars, connVars, discVars, dialVars, msdVars>>
notRing ==
    <<clientVars, serverVars, bcastVars, regVars, poolVars, connVars, discVars, dialVars, msdVars>>
notPool ==
    <<clientVars, serverVars, bcastVars, regVars, ringVars, connVars, discVars, dialVars, msdVars>>
notConn ==
    <<clientVars, serverVars, bcastVars, regVars, ringVars, poolVars, discVars, dialVars, msdVars>>
notDisc ==
    <<clientVars, serverVars, bcastVars, regVars, ringVars, poolVars, connVars, dialVars, msdVars>>
notMsd ==
    <<clientVars, serverVars, bcastVars, regVars, ringVars, poolVars, connVars, discVars, dialVars>>
notDial ==
    <<clientVars, serverVars, bcastVars, regVars, ringVars, poolVars, connVars, discVars, msdVars>>

NoHdr == [seq |-> 0, payload |-> 0, kind |-> "ok"]

\* newClientCodec: pending empty, seq 1, receive goroutine started
InitClient ==
    /\ pending = <<>>
    /\ seq = 1
    /\ closing = FALSE
    /\ shutdown = FALSE
    /\ sending = 0
    /\ mu = 0
    /\ callSeq = [c \in Callers |-> 0]
    /\ callError = [c \in Callers |-> "nil"]
    /\ callReply = [c \in Callers |-> 0]
    /\ doneCh = [c \in Callers |-> 0]
    /\ fired = [c \in Callers |-> 0]
    /\ cpc = [c \in Callers |-> "start"]
    /\ cres = [c \in Callers |-> "none"]
    /\ wire = <<>>
    /\ respCount = 0
    /\ peerClosed = FALSE
    /\ ccCloses = 0
    /\ closeCalls = 0
    /\ closeRet = "none"
    /\ rpc = "readHeader"
    /\ rh = NoHdr
    /\ rcall = 0
    /\ rerr = "nil"
    /\ termTodo = {}

\* Client.IsAvailable
IsAvailable == ~shutdown /\ ~closing

\* registerCall's guard: the call is refused when the client is closing or shut down
RegisterRefused == closing \/ shutdown

\* registerCall without client.seq++: the counter stays where it is
NextSeqStuck(s) == s

\* registerCall: client.seq++
NextSeq(s) == s + 1

\* removeCall that hands out some pending call when the Seq is not in the map
LookupAny(p, s) ==
    IF s \in DOMAIN p THEN p[s]
    ELSE IF DOMAIN p # {} THEN p[CHOOSE k \in DOMAIN p : TRUE] ELSE 0

\* removeCall: call := client.pending[seq]  (0 stands for nil)
Lookup(p, s) == IF s \in DOMAIN p THEN p[s] ELSE 0

\* removeCall without the delete: the call stays in the map
DeleteNothing(p, s) == p

\* removeCall: delete(client.pending, seq)
Delete(p, s) == [k \in (DOMAIN p) \ {s} |-> p[k]]

\* registerCall: client.pending[call.Seq] = call
Put(p, s, c) == [k \in (DOMAIN p) \cup {s} |-> IF k = s THEN c ELSE p[k]]

\* Call.done on a channel without a buffer and without a receiver
CanDoneUnbuffered(c) == doneCh[c] < 0

\* Call.done: call.Done <- call blocks while the channel is full
CanDone(c) == doneCh[c] < BuffSize

\* the connection still carries data: neither side has closed it
ConnOpen == ccCloses = 0 /\ ~peerClosed

\* send: client.sending.Lock() succeeds when nobody holds the mutex
SendingFree == sending = 0

(* ------------------------------ Client.Go / send ----------------------- *)
\* Go builds the Call; send: client.sending.Lock(); seq, err := client.registerCall(call);
\* if err != nil { call.Error = err; call.done() }
\* (no return after done: send goes on to write the header with seq 0)
\* The callers are interchangeable goroutines: they are numbered in the order
\* in which they get client.sending.
SendRegister(c) ==
    /\ cpc[c] = "start"
    /\ \A d \in Callers : d < c => cpc[d] # "start"
    /\ SendingFree
    /\ mu = 0
    /\ sending' = c
    /\ IF RegisterRefused
         THEN /\ CanDone(c)
              /\ callError' = [callError EXCEPT ![c] = "ErrShutdown"]
              /\ doneCh' = [doneCh EXCEPT ![c] = @ + 1]
              /\ fired' = [fired EXCEPT ![c] = @ + 1]
              /\ UNCHANGED <<notClient, pending, seq, callSeq>>
         ELSE /\ callSeq' = [callSeq EXCEPT ![c] = seq]
              /\ pending' = Put(pending, seq, c)
              /\ seq' = NextSeq(seq)
              /\ UNCHANGED <<notClient, callError, doneCh, fired>>
    /\ cpc' = [cpc EXCEPT ![c] = "write"]
    /\ UNCHANGED <<notClient, closing, shutdown, mu, callReply, cres, wire, respCount,
                   ccCloses, closeCalls, closeRet, rpc, rh, rcall, rerr, termTodo, peerClosed>>

\* send: client.header.Seq = seq; client.cc.Write(&client.header, call.Args) returns nil.
\* GobCodec.Write ignores the error of buf.Flush, so it also returns nil when the
\* connection is closed and nothing reaches the peer.
SendWriteOk(c) ==
    /\ cpc[c] = "write"
    /\ wire' = IF ConnOpen
                 THEN Append(wire, [seq |-> callSeq[c], args |-> c, body |-> TRUE])
                 ELSE wire
    /\ sending' = 0
    /\ cpc' = [cpc EXCEPT ![c] = "wait"]
    /\ UNCHANGED <<notClient, pending, seq, closing, shutdown, mu, callSeq, callError, callReply,
                   doneCh, fired, cres, respCount, ccCloses, closeCalls,
                   closeRet, rpc, rh, rcall, rerr, termTodo, peerClosed>>

\* send: client.cc.Write fails (an encoder error).  GobCodec.Write flushes what
\* was encoded (the header, when the body could not be encoded) and closes the
\* connection.
SendWriteErr(c) ==
    /\ cpc[c] = "write"
    /\ wire' = IF ConnOpen
                 THEN Append(wire, [seq |-> callSeq[c], args |-> c, body |-> FALSE])
                 ELSE wire
    /\ ccCloses' = ccCloses + 1
    /\ cpc' = [cpc EXCEPT ![c] = "writeFailed"]
    /\ UNCHANGED <<notClient, pending, seq, closing, shutdown, sending, mu, callSeq, callError,
                   callReply, doneCh, fired, cres, respCount, peerClosed, closeCalls, closeRet,
                   rpc, rh, rcall, rerr, termTodo>>

\* the write-failure branch without the check of call != nil
WriteFailDeliversAlways(call) == TRUE

\* send, write failed: call := client.removeCall(seq); if call != nil { call.Error = err; call.done() }
\* (the delivery goes to the call removeCall returned, which is the call being sent)
WriteFailDelivers(call) == call # 0

\* send after the failed write: remove the call and, when it was still in the
\* map, complete it with the error; the deferred client.sending.Unlock()
SendWriteErrRemove(c) ==
    /\ cpc[c] = "writeFailed"
    /\ mu = 0
    /\ LET call == Lookup(pending, callSeq[c]) IN
         /\ pending' = Delete(pending, callSeq[c])
         /\ IF WriteFailDelivers(call)
              THEN LET d == IF call = 0 THEN c ELSE call IN
                   /\ CanDone(d)
                   /\ callError' = [callError EXCEPT ![d] = "writeErr"]
                   /\ doneCh' = [doneCh EXCEPT ![d] = @ + 1]
                   /\ fired' = [fired EXCEPT ![d] = @ + 1]
              ELSE UNCHANGED <<callError, doneCh, fired>>
    /\ sending' = 0
    /\ cpc' = [cpc EXCEPT ![c] = "wait"]
    /\ UNCHANGED <<notClient, seq, closing, shutdown, mu, callSeq, callReply, cres, wire,
                   respCount, peerClosed, ccCloses, closeCalls, closeRet, rpc, rh, rcall, rerr,
                   termTodo>>

(* ------------------------------ Client.Call ---------------------------- *)
\* Call: case call := <-call.Done: return call.Error
CallDone(c) ==
    /\ cpc[c] = "wait"
    /\ doneCh[c] > 0
    /\ doneCh' = [doneCh EXCEPT ![c] = @ - 1]
    /\ cres' = [cres EXCEPT ![c] = callError[c]]
    /\ cpc' = [cpc EXCEPT ![c] = "returned"]
    /\ UNCHANGED <<notClient, pending, seq, closing, shutdown, sending, mu, callSeq, callError,
                   callReply, fired, wire, respCount, ccCloses, closeCalls,
                   closeRet, rpc, rh, rcall, rerr, termTodo, peerClosed>>

\* Call: the caller's context is cancelled while Call waits;
\* case <-ctx.Done(): client.removeCall(call.Seq); return the context error
CallCtx(c) ==
    /\ cpc[c] = "wait"
    /\ mu = 0
    /\ pending' = Delete(pending, callSeq[c])
    /\ cres' = [cres EXCEPT ![c] = "ctx"]
    /\ cpc' = [cpc EXCEPT ![c] = "returned"]
    /\ UNCHANGED <<notClient, seq, closing, shutdown, sending, mu, callSeq, callError, callReply,
                   doneCh, fired, wire, respCount, ccCloses, closeCalls,
                   closeRet, rpc, rh, rcall, rerr, termTodo, peerClosed>>

(* ------------------------------ Client.Close --------------------------- *)
\* Close without the check of client.closing
CloseNeverRefused == FALSE

\* Close: if client.closing { return ErrShutdown }
CloseRefused == closing

\* Close: client.closing = true; return client.cc.Close()
Close ==
    /\ closeCalls < MaxClose
    /\ mu = 0
    /\ closeCalls' = closeCalls + 1
    /\ IF CloseRefused
         THEN /\ closeRet' = "ErrShutdown"
              /\ UNCHANGED <<notClient, closing, ccCloses>>
         ELSE /\ closing' = TRUE
              /\ ccCloses' = ccCloses + 1
              /\ closeRet' = "nil"
    /\ UNCHANGED <<notClient, pending, seq, shutdown, sending, mu, callSeq, callError, callReply,
                   doneCh, fired, cpc, cres, wire, respCount, rpc, rh, rcall,
                   rerr, termTodo, peerClosed>>

(* ------------------------------ Client.receive ------------------------- *)
\* kinds of response: a reply, a response whose header carries an Error, and a
\* reply whose body the client cannot decode
RespKinds == {"ok", "err", "bad"}

\* The responses the peer can have written by now: the server answers a request
\* it has read (possibly more than once); the response carries the request's Seq
\* and the reply computed from the request's args.  What the peer wrote is
\* visible to the client only through ReadHeader, so a response enters the model
\* when receive reads it.
PeerResponses ==
    {[seq |-> wire[i].seq, payload |-> wire[i].args, kind |-> k] :
        i \in {j \in 1..Len(wire) : wire[j].body}, k \in RespKinds}
      \cup {[seq |-> wire[i].seq, payload |-> 0, kind |-> "err"] :
               i \in {j \in 1..Len(wire) : ~wire[j].body}}

\* receive: err = client.cc.ReadHeader(&h) returns a header the peer wrote;
\* call := client.removeCall(h.Seq)
RecvHeader ==
    /\ rpc = "readHeader"
    /\ respCount < MaxResp
    /\ mu = 0
    /\ \E h \in PeerResponses :
         /\ rh' = h
         /\ rcall' = Lookup(pending, h.seq)
         /\ pending' = Delete(pending, h.seq)
    /\ respCount' = respCount + 1
    /\ rpc' = "body"
    /\ UNCHANGED <<notClient, seq, closing, shutdown, sending, mu, callSeq, callError, callReply,
                   doneCh, fired, cpc, cres, wire, peerClosed, ccCloses, closeCalls,
                   closeRet, rerr, termTodo>>

\* receive: client.cc.ReadHeader(&h) fails: the connection was closed on this
\* side, or the peer closed it (EOF)
RecvReadErr ==
    /\ rpc = "readHeader"
    /\ peerClosed' = (ccCloses = 0)
    /\ rerr' = "readErr"
    /\ rpc' = "terminate"
    /\ UNCHANGED <<notClient, pending, seq, closing, shutdown, sending, mu, callSeq, callError,
                   callReply, doneCh, fired, cpc, cres, wire, respCount,
                   ccCloses, closeCalls, closeRet, rh, rcall, termTodo>>

\* receive: the switch on call == nil / h.Error != "" / default, each with its
\* ReadBody and call.done(); the loop goes on while err == nil
RecvBody ==
    /\ rpc = "body"
    /\ LET ok == rh.kind # "bad" IN
         /\ rerr' = IF ok THEN "nil" ELSE "bodyErr"
         /\ rpc' = IF ok THEN "readHeader" ELSE "terminate"
         /\ IF rcall = 0
              THEN UNCHANGED <<callError, callReply, doneCh, fired>>
              ELSE /\ CanDone(rcall)
                   /\ doneCh' = [doneCh EXCEPT ![rcall] = @ + 1]
                   /\ fired' = [fired EXCEPT ![rcall] = @ + 1]
                   /\ IF rh.kind = "err"
                        THEN /\ callError' = [callError EXCEPT ![rcall] = "srvErr"]
                             /\ UNCHANGED callReply
                        ELSE IF ok
                               THEN /\ callReply' = [callReply EXCEPT ![rcall] = rh.payload]
                                    /\ UNCHANGED callError
                               ELSE /\ callError' = [callError EXCEPT ![rcall] = "readingBody"]
                                    /\ UNCHANGED callReply
    /\ rcall' = 0
    /\ UNCHANGED <<notClient, pending, seq, closing, shutdown, sending, mu, callSeq, cpc, cres,
                   wire, respCount, ccCloses, closeCalls, closeRet, rh,
                   termTodo, peerClosed>>

(* ------------------------------ Client.terminateCalls ------------------ *)
\* terminateCalls that sets shutdown and visits no call
TermTargetsNone(p) == {}

\* terminateCalls: the calls the range loop visits
TermTargets(p) == {p[k] : k \in DOMAIN p}

\* terminateCalls: client.sending.Lock(); client.mu.Lock(); client.shutdown = true;
\* the range over client.pending starts
TermLock ==
    /\ rpc = "terminate"
    /\ sending = 0
    /\ mu = 0
    /\ sending' = RecvId
    /\ mu' = RecvId
    /\ shutdown' = TRUE
    /\ termTodo' = TermTargets(pending)
    /\ rpc' = "termLoop"
    /\ UNCHANGED <<notClient, pending, seq, closing, callSeq, callError, callReply, doneCh,
                   fired, cpc, cres, wire, respCount, ccCloses, closeCalls,
                   closeRet, rh, rcall, rerr, peerClosed>>

\* terminateCalls: one iteration: call.Error = err; call.done()
TermVisit ==
    /\ rpc = "termLoop"
    /\ \E c \in termTodo :
         /\ CanDone(c)
         /\ callError' = [callError EXCEPT ![c] = rerr]
         /\ doneCh' = [doneCh EXCEPT ![c] = @ + 1]
         /\ fired' = [fired EXCEPT ![c] = @ + 1]
         /\ termTodo' = termTodo \ {c}
    /\ UNCHANGED <<notClient, pending, seq, closing, shutdown, sending, mu, callSeq, callReply,
                   cpc, cres, wire, respCount, ccCloses, closeCalls, closeRet,
                   rpc, rh, rcall, rerr, peerClosed>>

\* terminateCalls returns: the deferred unlocks of mu and sending; receive ends
TermUnlock ==
    /\ rpc = "termLoop"
    /\ termTodo = {}
    /\ mu' = 0
    /\ sending' = 0
    /\ rpc' = "exited"
    /\ UNCHANGED <<notClient, pending, seq, closing, shutdown, callSeq, callError, callReply,
                   doneCh, fired, cpc, cres, wire, respCount, ccCloses,
                   closeCalls, closeRet, rh, rcall, rerr, termTodo, peerClosed>>

(* ------------------------------ server connection --------------------- *)
Reqs == 1..MaxReq

\* holders of the sending mutex
Free == <<"free", 0>>
LoopW == <<"loop", 0>>
HReq(t) == <<"handleRequest", t>>
HCall(t) == <<"call", t>>

NoReq == [seq |-> 0, err |-> ""]

\* serverCodec starts: new mutex, new WaitGroup, nothing read or written
InitServer ==
    /\ handleTimeout \in BOOLEAN
    /\ nreq = 0
    /\ bodyPending = "none"
    /\ spc = "readHeader"
    /\ sreq = NoReq
    /\ out = <<>>
    /\ srvSending = Free
    /\ wg = 0
    /\ srvClosed = FALSE
    /\ hpc = [t \in Reqs |-> "none"]
    /\ gpc = [t \in Reqs |-> "none"]
    /\ gres = [t \in Reqs |-> "none"]
    /\ ctx = [t \in Reqs |-> "live"]
    /\ hErr = [t \in Reqs |-> ""]
    /\ timedOutRunning = {}

\* sendResponse without the sending mutex
SrvSendingIgnored == TRUE

\* sendResponse: sending.Lock() succeeds when nobody holds the mutex
SrvSendingFree == srvSending = Free

\* cc.Write puts a frame on the connection unless the codec was closed
Emit(o, f) == IF srvClosed THEN o ELSE Append(o, f)

(* ------------------------------ Server.serverCodec --------------------- *)
\* readRequest reads the next request of the client: readRequestHeader, then
\* findService; for a known method cc.ReadBody, and on success wg.Add(1) and
\* go handleRequest.  An unknown service/method or a body that does not decode
\* makes serverCodec send an error response.
LoopRead ==
    /\ spc = "readHeader"
    /\ bodyPending = "none"
    /\ nreq < MaxReq
    /\ nreq' = nreq + 1
    /\ \E known \in BOOLEAN, body \in {"ok", "bad"} :
         IF ~known
           THEN /\ bodyPending' = body  \* return req, err: the body stays unread
                /\ sreq' = [seq |-> nreq + 1, err |-> "service"]
                /\ spc' = "respond"
                /\ UNCHANGED <<wg, hpc, gpc>>
           ELSE IF body = "bad"
             THEN /\ bodyPending' = "none"
                  /\ sreq' = [seq |-> nreq + 1, err |-> "body"]
                  /\ spc' = "respond"
                  /\ UNCHANGED <<wg, hpc, gpc>>
             ELSE /\ bodyPending' = "none"
                  /\ sreq' = NoReq
                  /\ wg' = wg + 1
                  /\ hpc' = [hpc EXCEPT ![nreq + 1] = "select"]
                  /\ gpc' = [gpc EXCEPT ![nreq + 1] = "call"]
                  /\ spc' = "readHeader"
    /\ UNCHANGED <<notServer, handleTimeout, out, srvSending, srvClosed, gres, ctx, hErr, timedOutRunning>>

\* readRequestHeader while a body frame is next on the stream: the gob decoder
\* decodes that frame as a Header; it fails on a type mismatch (the loop
\* ends), or it yields a Header with none of its fields set when the body is a
\* struct that shares no set field with Header
LoopReadMisaligned ==
    /\ spc = "readHeader"
    /\ bodyPending # "none"
    /\ bodyPending' = "none"
    /\ \/ /\ spc' = "wait"
          /\ sreq' = NoReq
       \/ /\ spc' = "respond"
          /\ sreq' = [seq |-> 0, err |-> "service"]
    /\ UNCHANGED <<notServer, handleTimeout, nreq, out, srvSending, wg, srvClosed, hpc, gpc,
                   gres, ctx, hErr, timedOutRunning>>

\* readRequestHeader returns io.EOF: the client closed the connection; break
LoopEOF ==
    /\ spc = "readHeader"
    /\ bodyPending = "none"
    /\ spc' = "wait"
    /\ UNCHANGED <<notServer, handleTimeout, nreq, bodyPending, sreq, out, srvSending, wg,
                   srvClosed, hpc, gpc, gres, ctx, hErr, timedOutRunning>>

\* serverCodec: req.h.Error = err.Error(); sendResponse(cc, req.h, invalidRequest, sending):
\* sending.Lock() and the header of cc.Write
LoopRespondHeader ==
    /\ spc = "respond"
    /\ SrvSendingFree
    /\ srvSending' = LoopW
    /\ out' = Emit(out, [kind |-> "hdr", seq |-> sreq.seq, err |-> sreq.err, w |-> LoopW])
    /\ spc' = "respondBody"
    /\ UNCHANGED <<notServer, handleTimeout, nreq, bodyPending, sreq, wg, srvClosed, hpc, gpc,
                   gres, ctx, hErr, timedOutRunning>>

\* sendResponse: the body of cc.Write, sending.Unlock(); continue
LoopRespondBody ==
    /\ spc = "respondBody"
    /\ out' = Emit(out, [kind |-> "body", seq |-> sreq.seq, err |-> sreq.err, w |-> LoopW])
    /\ srvSending' = Free
    /\ sreq' = NoReq
    /\ spc' = "readHeader"
    /\ UNCHANGED <<notServer, handleTimeout, nreq, bodyPending, wg, srvClosed, hpc, gpc, gres,
                   ctx, hErr, timedOutRunning>>

\* serverCodec: wg.Wait(); _ = cc.Close()
LoopClose ==
    /\ spc = "wait"
    /\ wg = 0
    /\ srvClosed' = TRUE
    /\ spc' = "closed"
    /\ UNCHANGED <<notServer, handleTimeout, nreq, bodyPending, sreq, out, srvSending, wg, hpc,
                   gpc, gres, ctx, hErr, timedOutRunning>>

(* ------------------------------ Server.handleRequest ------------------- *)
\* the goroutine of handleRequest: err := req.svc.call(...) returns;
\* if err != nil { req.h.Error = err.Error() }
HandlerReturn(t) ==
    /\ gpc[t] = "call"
    /\ \E ok \in BOOLEAN :
         /\ gres' = [gres EXCEPT ![t] = IF ok THEN "ok" ELSE "err"]
         /\ hErr' = IF ok THEN hErr ELSE [hErr EXCEPT ![t] = "handler"]
    /\ gpc' = [gpc EXCEPT ![t] = "send"]
    /\ UNCHANGED <<notServer, handleTimeout, nreq, bodyPending, spc, sreq, out, srvSending, wg,
                   srvClosed, hpc, ctx, timedOutRunning>>

\* the goroutine's sendResponse: sending.Lock() and the header of cc.Write,
\* which encodes req.h as it is at that moment
HandlerSendHeader(t) ==
    /\ gpc[t] = "send"
    /\ SrvSendingFree
    /\ srvSending' = HCall(t)
    /\ out' = Emit(out, [kind |-> "hdr", seq |-> t, err |-> hErr[t], w |-> HCall(t)])
    /\ gpc' = [gpc EXCEPT ![t] = "sendBody"]
    /\ UNCHANGED <<notServer, handleTimeout, nreq, bodyPending, spc, sreq, wg, srvClosed, hpc,
                   gres, ctx, hErr, timedOutRunning>>

\* the goroutine's sendResponse: the body of cc.Write, sending.Unlock(); after a
\* successful call the goroutine calls cancel(), after a failed call it returns
\* without calling it
HandlerSendBody(t) ==
    /\ gpc[t] = "sendBody"
    /\ out' = Emit(out, [kind |-> "body", seq |-> t, err |-> hErr[t], w |-> HCall(t)])
    /\ srvSending' = Free
    /\ ctx' = IF gres[t] = "ok" /\ ctx[t] = "live"
                THEN [ctx EXCEPT ![t] = "cancelled"] ELSE ctx
    /\ gpc' = [gpc EXCEPT ![t] = "done"]
    /\ UNCHANGED <<notServer, handleTimeout, nreq, bodyPending, spc, sreq, wg, srvClosed, hpc,
                   gres, hErr, timedOutRunning>>

\* handleRequest: the timer of context.WithTimeout expires while the select waits
HandleTimerExpires(t) ==
    /\ hpc[t] = "select"
    /\ handleTimeout
    /\ ctx[t] = "live"
    /\ ctx' = [ctx EXCEPT ![t] = "timeout"]
    /\ hErr' = [hErr EXCEPT ![t] = "timeout"]
    /\ hpc' = [hpc EXCEPT ![t] = "send"]
    /\ timedOutRunning' = IF gpc[t] = "call" THEN timedOutRunning \cup {t}
                                             ELSE timedOutRunning
    /\ UNCHANGED <<notServer, handleTimeout, nreq, bodyPending, spc, sreq, out, srvSending, wg,
                   srvClosed, gpc, gres>>

\* handleRequest: the select wakes up on a context that cancel() ended; with
\* timeout == 0 it returns (wg.Done), otherwise it goes on to send the timeout
\* response
HandleCtxCancelled(t) ==
    /\ hpc[t] = "select"
    /\ ctx[t] = "cancelled"
    /\ IF handleTimeout
         THEN /\ hErr' = [hErr EXCEPT ![t] = "timeout"]
              /\ hpc' = [hpc EXCEPT ![t] = "send"]
              /\ UNCHANGED wg
         ELSE /\ hpc' = [hpc EXCEPT ![t] = "done"]
              /\ wg' = wg - 1
              /\ UNCHANGED hErr
    /\ UNCHANGED <<notServer, handleTimeout, nreq, bodyPending, spc, sreq, out, srvSending,
                   srvClosed, gpc, gres, ctx, timedOutRunning>>

\* handleRequest's sendResponse: sending.Lock() and the header of cc.Write
HandleSendHeader(t) ==
    /\ hpc[t] = "send"
    /\ SrvSendingFree
    /\ srvSending' = HReq(t)
    /\ out' = Emit(out, [kind |-> "hdr", seq |-> t, err |-> hErr[t], w |-> HReq(t)])
    /\ hpc' = [hpc EXCEPT ![t] = "sendBody"]
    /\ UNCHANGED <<notServer, handleTimeout, nreq, bodyPending, spc, sreq, wg, srvClosed, gpc,
                   gres, ctx, hErr, timedOutRunning>>

\* handleRequest's sendResponse: the body, sending.Unlock(); handleRequest
\* returns: wg.Done()
HandleSendBody(t) ==
    /\ hpc[t] = "sendBody"
    /\ out' = Emit(out, [kind |-> "body", seq |-> t, err |-> hErr[t], w |-> HReq(t)])
    /\ srvSending' = Free
    /\ wg' = wg - 1
    /\ hpc' = [hpc EXCEPT ![t] = "done"]
    /\ UNCHANGED <<notServer, handleTimeout, nreq, bodyPending, spc, sreq, srvClosed, gpc, gres,
                   ctx, hErr, timedOutRunning>>

NextServer ==
    \/ LoopRead
    \/ LoopReadMisaligned
    \/ LoopEOF
    \/ LoopRespondHeader
    \/ LoopRespondBody
    \/ LoopClose
    \/ \E t \in Reqs : HandlerReturn(t)
    \/ \E t \in Reqs : HandlerSendHeader(t)
    \/ \E t \in Reqs : HandlerSendBody(t)
    \/ \E t \in Reqs : HandleTimerExpires(t)
    \/ \E t \in Reqs : HandleCtxCancelled(t)
    \/ \E t \in Reqs : HandleSendHeader(t)
    \/ \E t \in Reqs : HandleSendBody(t)

(* ------------------------------ XClient.Broadcast ---------------------- *)
Endpoints == 1..MaxServers

\* value of bret while Broadcast has not returned
Running == 0 - 1

\* Broadcast after the loop that starts the goroutines: GetAll returned a
\* non-empty list, wg.Add(1) was called per endpoint, replyDone := reply == nil
InitBcast ==
    /\ servers \in 1..MaxServers
    /\ replyNil \in BOOLEAN
    /\ bctx = "live"
    /\ bpc = [i \in Endpoints |-> IF i <= servers THEN "call" ELSE "none"]
    /\ berr = [i \in Endpoints |-> "none"]
    /\ bmu = 0
    /\ e = 0
    /\ replyDone = replyNil
    /\ reply = 0
    /\ bwg = servers
    /\ bret = Running

\* the caller's context (the parent of the derived one) is cancelled
BcastParentCancel ==
    /\ bctx = "live"
    /\ bret = Running
    /\ bctx' = "cancelled"
    /\ UNCHANGED <<notBcast, servers, replyNil, bpc, berr, bmu, e, replyDone, reply,
                   bwg, bret>>

\* err := xc.call(rpcAddr, ctx, ...) returns: the endpoint replied (also possible
\* when the context is done and the reply is there as well), dial or the call
\* failed, or Client.Call returned the context error of a cancelled context
BcastCallReturns(i) ==
    /\ bpc[i] = "call"
    /\ \E r \in {"nil", "fail"} \cup (IF bctx = "cancelled" THEN {"ctx"} ELSE {}) :
         berr' = [berr EXCEPT ![i] = r]
    /\ bpc' = [bpc EXCEPT ![i] = "lock"]
    /\ UNCHANGED <<notBcast, servers, replyNil, bctx, bmu, e, replyDone, reply, bwg,
                   bret>>

\* mu.Lock()
BcastLock(i) ==
    /\ bpc[i] = "lock"
    /\ bmu = 0
    /\ bmu' = i
    /\ bpc' = [bpc EXCEPT ![i] = "record"]
    /\ UNCHANGED <<notBcast, servers, replyNil, bctx, berr, e, replyDone, reply, bwg,
                   bret>>

\* the error is recorded without the check of e: the last error wins
RecordsErrorAlways(err, cur) == err # "nil"

\* if err != nil && e == nil
RecordsError(err, cur) == err # "nil" /\ cur = 0

\* the reply is copied without the check of err
SetsReplyAlways(err, done) == ~done

\* if err == nil && !replyDone
SetsReply(err, done) == err = "nil" /\ ~done

\* the critical section: record the first error and cancel(); copy the first
\* successful clonedReply into reply; mu.Unlock(); the deferred wg.Done()
BcastRecord(i) ==
    /\ bpc[i] = "record"
    /\ IF RecordsError(berr[i], e)
         THEN e' = i /\ bctx' = "cancelled"
         ELSE UNCHANGED <<e, bctx>>
    /\ IF SetsReply(berr[i], replyDone)
         THEN reply' = i /\ replyDone' = TRUE
         ELSE UNCHANGED <<reply, replyDone>>
    /\ bmu' = 0
    /\ bwg' = bwg - 1
    /\ bpc' = [bpc EXCEPT ![i] = "done"]
    /\ UNCHANGED <<notBcast, servers, replyNil, berr, bret>>

\* wg.Wait(); return e
BcastReturn ==
    /\ bret = Running
    /\ bwg = 0
    /\ bret' = e
    /\ UNCHANGED <<notBcast, servers, replyNil, bctx, bpc, berr, bmu, e, replyDone,
                   reply, bwg>>

NextBcast ==
    \/ BcastParentCancel
    \/ \E i \in Endpoints : BcastCallReturns(i)
    \/ \E i \in Endpoints : BcastLock(i)
    \/ \E i \in Endpoints : BcastRecord(i)
    \/ BcastReturn

(* ------------------------------ registry ------------------------------- *)
Addrs == 1..MaxAddr
NoBeat == 0 - 1
Methods == {"GET", "POST", "PUT", "DELETE"}
NoRequest == [m |-> "none", addr |-> 0]

\* registry.New(timeout): empty table
InitReg ==
    /\ regTimeout \in 0..MaxRegTimeout
    /\ now = 0
    /\ regServers = <<>>
    /\ regReq = NoRequest
    /\ regStatus = 0
    /\ regAnswer = <<>>
    /\ regAt = 0
    /\ lastBeat = [a \in Addrs |-> NoBeat]

\* aliveServers that also keeps an item whose deadline is the present instant
IsAliveInclusive(start) == regTimeout = 0 \/ start + regTimeout >= now

\* aliveServers: r.timeout == 0 || s.start.Add(r.timeout).After(time.Now())
IsAlive(start) == regTimeout = 0 \/ start + regTimeout > now

\* the orders in which a range loop can visit the keys of a map
Orders(S) == {f \in [1..Cardinality(S) -> S] : \A i, j \in DOMAIN f : i # j => f[i] # f[j]}

\* sort.Strings: insertion of x into an ascending list
RECURSIVE Insert(_, _)
Insert(x, s) ==
    IF s = <<>> THEN <<x>>
    ELSE IF x <= Head(s) THEN <<x>> \o s
    ELSE <<Head(s)>> \o Insert(x, Tail(s))

\* sort.Strings(alive)
RECURSIVE SortStrings(_)
SortStrings(s) == IF s = <<>> THEN <<>> ELSE Insert(Head(s), SortStrings(Tail(s)))

\* putServer that starts a new table with the address
PutServerAlone(tbl, a) == [x \in {a} |-> now]

\* putServer: insert the item, or update start of the item that exists
PutServer(tbl, a) ==
    [x \in DOMAIN tbl \cup {a} |-> IF x = a THEN now ELSE tbl[x]]

\* time passes on the registry's host
RegTick ==
    /\ now < MaxTime
    /\ now' = now + 1
    /\ UNCHANGED <<notReg, regTimeout, regServers, regReq, regStatus, regAnswer, regAt, lastBeat>>

\* ServeHTTP, case "GET": aliveServers walks the map in some order, keeps the
\* alive addresses, deletes the others, sorts; the list goes into X-Myrpc-Servers
RegGet ==
    /\ \E ord \in Orders(DOMAIN regServers) :
         LET alive == SelectSeq(ord, LAMBDA a : IsAlive(regServers[a]))
             kept == {alive[i] : i \in DOMAIN alive}
         IN  /\ regAnswer' = SortStrings(alive)
             /\ regServers' = [a \in kept |-> regServers[a]]
    /\ regReq' = [m |-> "GET", addr |-> 0]
    /\ regStatus' = 200
    /\ regAt' = now
    /\ UNCHANGED <<notReg, regTimeout, now, lastBeat>>

\* ServeHTTP, case "POST": 500 when X-Myrpc-Server is missing, else putServer
RegPost ==
    /\ \E a \in 0..MaxAddr :
         /\ regReq' = [m |-> "POST", addr |-> a]
         /\ IF a = 0
              THEN /\ regStatus' = 500
                   /\ UNCHANGED <<regServers, lastBeat>>
              ELSE /\ regStatus' = 200
                   /\ regServers' = PutServer(regServers, a)
                   /\ lastBeat' = [lastBeat EXCEPT ![a] = now]
    /\ regAnswer' = <<>>
    /\ regAt' = now
    /\ UNCHANGED <<notReg, regTimeout, now>>

\* ServeHTTP, default: 405
RegOther ==
    /\ \E m \in Methods \ {"GET", "POST"}, a \in 0..MaxAddr :
         regReq' = [m |-> m, addr |-> a]
    /\ regStatus' = 405
    /\ regAnswer' = <<>>
    /\ regAt' = now
    /\ UNCHANGED <<notReg, regTimeout, now, regServers, lastBeat>>

NextReg ==
    \/ RegTick
    \/ RegGet
    \/ RegPost
    \/ RegOther

(* ------------------------------ hash ring ------------------------------ *)
Backends == {"b", "c"}
RingKeys == {"k6", "0b", "zz", "bar"}

\* strconv.Itoa(i) + masterNode for i = 0, 1, 2
VNodeName == ("b" :> <<"0b", "1b", "2b">>) @@ ("c" :> <<"0c", "1c", "2c">>)

\* hashKey: crc32.ChecksumIEEE of the strings the model uses
HashKey ==
    ("0b" :> 1025713272) @@ ("1b" :> 607655225) @@ ("2b" :> 253052666)
      @@ ("0c" :> 1243878638) @@ ("1c" :> 1396647343) @@ ("2c" :> 2014475884)
      @@ ("k6" :> 141178122) @@ ("zz" :> 618208161) @@ ("bar" :> 1996459178)

\* the ring entries AddNode and removeNode compute for a backend, in loop order
NodeKeys(b) == [i \in 1..ReplicateCount |-> HashKey[VNodeName[b][i]]]

\* a Go map read: the zero value "" for a key that is not in the map
MapGet(m, k) == IF k \in DOMAIN m THEN m[k] ELSE ""

\* New(nodes, replicateCount) with no nodes
InitRing ==
    /\ ringNodes = <<>>
    /\ ringSorted = <<>>
    /\ ringMembers = {}
    /\ ringOps = 0
    /\ ringLast = [op |-> "none", arg |-> "", ret |-> ""]

\* sort.Slice(hr.sortedNodes, less) with less(i, j) = sortedNodes[i] < sortedNodes[j]
RECURSIVE SortSlice(_)
SortSlice(s) == IF s = <<>> THEN <<>> ELSE Insert(Head(s), SortSlice(Tail(s)))

\* getIndexForKey: the first index that holds key, 0 when there is none
IndexForKey(s, key) ==
    IF \E i \in DOMAIN s : s[i] = key
      THEN CHOOSE i \in DOMAIN s : s[i] = key /\ \A j \in 1..(i - 1) : s[j] # key
      ELSE 0

\* append(sortedNodes[:index], sortedNodes[index+1:]...)
Splice(s, index) == SubSeq(s, 1, index - 1) \o SubSeq(s, index + 1, Len(s))

\* the loop of removeNode over the slice: one splice per key that is found
RECURSIVE RemoveKeys(_, _)
RemoveKeys(s, ks) ==
    IF ks = <<>> THEN s
    ELSE LET index == IndexForKey(s, Head(ks))
         IN  RemoveKeys(IF index # 0 THEN Splice(s, index) ELSE s, Tail(ks))

\* the loop of GetNode: the backend filed under the first entry that is greater
\* than hashKey, masterNode as it was when no entry is
RECURSIVE Walk(_, _, _)
Walk(s, h, masterNode) ==
    IF s = <<>> THEN masterNode
    ELSE IF h < Head(s) THEN MapGet(ringNodes, Head(s))
    ELSE Walk(Tail(s), h, masterNode)

\* AddNode: file every entry of the backend in the map, append it to the
\* slice, sort the slice
AddNode ==
    /\ ringOps < MaxRingOps
    /\ \E b \in Backends :
         LET ks == NodeKeys(b)
             new == {ks[i] : i \in DOMAIN ks}
         IN  /\ ringNodes' = [k \in DOMAIN ringNodes \cup new |->
                                 IF k \in new THEN b ELSE ringNodes[k]]
             /\ ringSorted' = SortSlice(ringSorted \o ks)
             /\ ringMembers' = ringMembers \cup {b}
             /\ ringLast' = [op |-> "AddNode", arg |-> b, ret |-> ""]
    /\ ringOps' = ringOps + 1
    /\ UNCHANGED notRing

\* removeNode: delete every entry of the backend from the map and splice its
\* first occurrence out of the slice
RemoveNode ==
    /\ ringOps < MaxRingOps
    /\ \E b \in Backends :
         LET ks == NodeKeys(b)
             old == {ks[i] : i \in DOMAIN ks}
         IN  /\ ringNodes' = [k \in DOMAIN ringNodes \ old |-> ringNodes[k]]
             /\ ringSorted' = RemoveKeys(ringSorted, ks)
             /\ ringMembers' = ringMembers \ {b}
             /\ ringLast' = [op |-> "removeNode", arg |-> b, ret |-> ""]
    /\ ringOps' = ringOps + 1
    /\ UNCHANGED notRing

\* GetNode: "" when the map is empty, else the walk over the slice starting
\* from the backend of sortedNodes[0]; indexing an empty slice panics
GetNode ==
    /\ ringOps < MaxRingOps
    /\ \E key \in RingKeys :
         ringLast' = [op |-> "GetNode", arg |-> key,
                      ret |-> IF DOMAIN ringNodes = {} THEN ""
                              ELSE IF ringSorted = <<>> THEN "panic"
                              ELSE Walk(ringSorted, HashKey[key],
                                        MapGet(ringNodes, ringSorted[1]))]
    /\ ringOps' = ringOps + 1
    /\ UNCHANGED <<notRing, ringNodes, ringSorted, ringMembers>>

NextRing ==
    \/ AddNode
    \/ RemoveNode
    \/ GetNode

(* ------------------------------ XClient pool --------------------------- *)
Dialers == 1..NumDialers
\* rpc addresses the callers dial
PoolAddrs == {1, 2}
ClientIds == 1..MaxDialCalls
\* dial calls started so far
RECURSIVE DialsStarted(_)
DialsStarted(n) == IF n = 0 THEN 0 ELSE xcalls[n] + DialsStarted(n - 1)
\* dial returned nil and the error of XDial
DialErr == 0 - 1

\* NewXClient: empty pool
InitPool ==
    /\ xmu = 0
    /\ xclients = <<>>
    /\ xpc = [t \in Dialers |-> "idle"]
    /\ xaddr = [t \in Dialers |-> 0]
    /\ xret = [t \in Dialers |-> 0]
    /\ xcalls = [t \in Dialers |-> 0]
    /\ nextClient = 1
    /\ clAddr = [c \in ClientIds |-> 0]
    /\ clClosing = [c \in ClientIds |-> FALSE]
    /\ clShutdown = [c \in ClientIds |-> FALSE]

\* dial without xc.mu
XMuIgnored == TRUE

\* xc.mu.Lock() succeeds when nobody holds the mutex
XMuFree == xmu = 0

\* client.IsAvailable()
ClAvailable(c) == ~clShutdown[c] /\ ~clClosing[c]

\* delete(xc.clients, rpcAddr)
PoolDelete(m, a) == [x \in DOMAIN m \ {a} |-> m[x]]

\* xc.clients[rpcAddr] = client
PoolPut(m, a, c) == [x \in DOMAIN m \cup {a} |-> IF x = a THEN c ELSE m[x]]

\* dial: xc.mu.Lock(); look the address up; a cached client that is available
\* is returned (unlock); one that is not is closed and deleted; without a
\* client the goroutine enters XDial, still holding xc.mu
DialCheck(t) ==
    /\ xpc[t] \in {"idle", "ret"}
    /\ DialsStarted(NumDialers) < MaxDialCalls
    /\ XMuFree
    /\ xcalls' = [xcalls EXCEPT ![t] = @ + 1]
    /\ \E a \in PoolAddrs :
         /\ xaddr' = [xaddr EXCEPT ![t] = a]
         /\ IF a \in DOMAIN xclients /\ ClAvailable(xclients[a])
              THEN /\ xret' = [xret EXCEPT ![t] = xclients[a]]
                   /\ xpc' = [xpc EXCEPT ![t] = "ret"]
                   /\ UNCHANGED <<xmu, xclients, clClosing>>
              ELSE /\ xmu' = t
                   /\ xpc' = [xpc EXCEPT ![t] = "xdial"]
                   /\ xret' = [xret EXCEPT ![t] = 0]
                   /\ IF a \in DOMAIN xclients
                        THEN /\ clClosing' = [clClosing EXCEPT ![xclients[a]] = TRUE]
                             /\ xclients' = PoolDelete(xclients, a)
                        ELSE UNCHANGED <<xclients, clClosing>>
    /\ UNCHANGED <<notPool, nextClient, clAddr, clShutdown>>

\* dial: MyRPC.XDial returns a client, which is cached and returned
DialOk(t) ==
    /\ xpc[t] = "xdial"
    /\ clAddr' = [clAddr EXCEPT ![nextClient] = xaddr[t]]
    /\ xclients' = PoolPut(xclients, xaddr[t], nextClient)
    /\ xret' = [xret EXCEPT ![t] = nextClient]
    /\ nextClient' = nextClient + 1
    /\ xpc' = [xpc EXCEPT ![t] = "ret"]
    /\ xmu' = 0
    /\ UNCHANGED <<notPool, xaddr, xcalls, clClosing, clShutdown>>

\* dial: MyRPC.XDial returns an error (refused, timed out, negotiation failed)
DialFail(t) ==
    /\ xpc[t] = "xdial"
    /\ xret' = [xret EXCEPT ![t] = DialErr]
    /\ xpc' = [xpc EXCEPT ![t] = "ret"]
    /\ xmu' = 0
    /\ UNCHANGED <<notPool, xclients, xaddr, xcalls, nextClient, clAddr, clClosing, clShutdown>>

\* the receive loop of a client ends (terminateCalls sets shutdown)
ClientFails ==
    /\ \E c \in ClientIds :
         /\ clAddr[c] # 0
         /\ ~clShutdown[c]
         /\ clShutdown' = [clShutdown EXCEPT ![c] = TRUE]
    /\ UNCHANGED <<notPool, xmu, xclients, xpc, xaddr, xret, xcalls, nextClient, clAddr,
                   clClosing>>

\* XClient.Close: under xc.mu, close and delete every cached client
XClientClose ==
    /\ XMuFree
    /\ xclients # <<>>
    /\ clClosing' = [c \in ClientIds |->
                        clClosing[c] \/ \E a \in DOMAIN xclients : xclients[a] = c]
    /\ xclients' = <<>>
    /\ UNCHANGED <<notPool, xmu, xpc, xaddr, xret, xcalls, nextClient, clAddr, clShutdown>>

NextPool ==
    \/ \E t \in Dialers : DialCheck(t)
    \/ \E t \in Dialers : DialOk(t)
    \/ \E t \in Dialers : DialFail(t)
    \/ ClientFails
    \/ XClientClose

(* ------------------------------ negotiation ---------------------------- *)
Conns == 1..MaxConns

\* const MagicNumber = 0x79779200
MagicNumber == 2037879296
\* a number that is not the magic number
OtherMagic == 12345

GobType == "application/gob"
JsonType == "application/json"
\* the codec identifiers of the enumeration
CodecTypes == {GobType, JsonType}
\* a codec identifier outside the enumeration
OtherCodec == "application/xml"

\* codec.init: the constructors filed in NewCodecFuncMap
NewCodecFuncMap == (GobType :> "NewGobCodec")

NoOption == [MagicNumber |-> 0, CodecType |-> ""]
Options == [MagicNumber : {MagicNumber, OtherMagic}, CodecType : CodecTypes \cup {OtherCodec}]

\* json.NewEncoder(conn).Encode(opt): the object with the fields of Option
EncodeOption(opt) ==
    [kind |-> "json", obj |-> [MagicNumber |-> opt.MagicNumber, CodecType |-> opt.CodecType]]

\* preambles of peers that are not this client: nothing before the connection
\* ends, bytes that are not JSON, JSON objects that lack fields of Option
ForeignPreambles ==
    {[kind |-> "eof", obj |-> <<>>],
     [kind |-> "garbage", obj |-> <<>>],
     [kind |-> "json", obj |-> <<>>],
     [kind |-> "json", obj |-> [MagicNumber |-> MagicNumber]],
     [kind |-> "json", obj |-> [CodecType |-> GobType]]}

NoPreamble == [kind |-> "none", obj |-> <<>>]

\* json.Decoder.Decode(&opt): a field the object lacks keeps its zero value
DecodeOption(obj) ==
    [MagicNumber |-> IF "MagicNumber" \in DOMAIN obj THEN obj.MagicNumber ELSE 0,
     CodecType |-> IF "CodecType" \in DOMAIN obj THEN obj.CodecType ELSE ""]

\* ServerConn without the comparison of opt.MagicNumber
MagicUnchecked(opt) == TRUE

\* ServerConn: opt.MagicNumber != MagicNumber rejects
MagicMatches(opt) == opt.MagicNumber = MagicNumber

\* f := codec.NewCodecFuncMap[opt.CodecType]; f == nil rejects
CodecKnown(t) == t \in DOMAIN NewCodecFuncMap

InitConn ==
    /\ cliOpt = [k \in Conns |-> NoOption]
    /\ cliRes = [k \in Conns |-> "none"]
    /\ preamble = [k \in Conns |-> NoPreamble]
    /\ srvConn = [k \in Conns |-> "none"]
    /\ srvOpt = [k \in Conns |-> NoOption]
    /\ connRead = [k \in Conns |-> 0]
    /\ connWritten = [k \in Conns |-> 0]
    /\ connClosed = [k \in Conns |-> FALSE]

\* NewClient on a fresh connection: look the codec up, then send the Option;
\* when the lookup fails nothing is sent and dialTimeout closes the connection
ConnNewClient(k) ==
    /\ preamble[k] = NoPreamble
    /\ \E opt \in Options :
         /\ cliOpt' = [cliOpt EXCEPT ![k] = opt]
         /\ IF CodecKnown(opt.CodecType)
              THEN /\ cliRes' = [cliRes EXCEPT ![k] = "ok"]
                   /\ preamble' = [preamble EXCEPT ![k] = EncodeOption(opt)]
              ELSE /\ cliRes' = [cliRes EXCEPT ![k] = "codecErr"]
                   /\ preamble' = [preamble EXCEPT ![k] = [kind |-> "eof", obj |-> <<>>]]
    /\ UNCHANGED <<notConn, srvConn, srvOpt, connRead, connWritten, connClosed>>

\* a peer that does not use NewClient writes its own preamble
ConnForeignPeer(k) ==
    /\ preamble[k] = NoPreamble
    /\ \E p \in ForeignPreambles \cup {EncodeOption(o) : o \in Options} :
         preamble' = [preamble EXCEPT ![k] = p]
    /\ UNCHANGED <<notConn, cliOpt, cliRes, srvConn, srvOpt, connRead, connWritten, connClosed>>

\* ServerConn: decode the Option, compare the magic number, look the codec up;
\* enter serverCodec, or return, which closes the connection
ServerConn(k) ==
    /\ srvConn[k] = "none"
    /\ preamble[k] # NoPreamble
    /\ IF preamble[k].kind # "json"
         THEN /\ srvConn' = [srvConn EXCEPT ![k] = "rejected"]
              /\ connClosed' = [connClosed EXCEPT ![k] = TRUE]
              /\ UNCHANGED srvOpt
         ELSE LET opt == DecodeOption(preamble[k].obj)
              IN  /\ srvOpt' = [srvOpt EXCEPT ![k] = opt]
                  /\ IF MagicMatches(opt) /\ CodecKnown(opt.CodecType)
                       THEN /\ srvConn' = [srvConn EXCEPT ![k] = "loop"]
                            /\ UNCHANGED connClosed
                       ELSE /\ srvConn' = [srvConn EXCEPT ![k] = "rejected"]
                            /\ connClosed' = [connClosed EXCEPT ![k] = TRUE]
    /\ UNCHANGED <<notConn, cliOpt, cliRes, preamble, connRead, connWritten>>

\* serverCodec on an accepted connection: a request is read and answered
ConnServe(k) ==
    /\ srvConn[k] = "loop"
    /\ connRead[k] < MaxConnReqs
    /\ connRead' = [connRead EXCEPT ![k] = @ + 1]
    /\ connWritten' = [connWritten EXCEPT ![k] = @ + 1]
    /\ UNCHANGED <<notConn, cliOpt, cliRes, preamble, srvConn, srvOpt, connClosed>>

\* serverCodec ends (the peer closed the connection); ServerConn returns
ConnEnd(k) ==
    /\ srvConn[k] = "loop"
    /\ srvConn' = [srvConn EXCEPT ![k] = "served"]
    /\ connClosed' = [connClosed EXCEPT ![k] = TRUE]
    /\ UNCHANGED <<notConn, cliOpt, cliRes, preamble, srvOpt, connRead, connWritten>>

NextConn ==
    \/ \E k \in Conns : ConnNewClient(k)
    \/ \E k \in Conns : ConnForeignPeer(k)
    \/ \E k \in Conns : ServerConn(k)
    \/ \E k \in Conns : ConnServe(k)
    \/ \E k \in Conns : ConnEnd(k)

(* ------------------------------ registry discovery -------------------- *)
\* the zero time.Time: before every instant of the clock
ZeroTime == 0 - 100

\* the items strings.Split can cut out of X-Myrpc-Servers
RawItems == {"", " a ", "b"}

\* strings.TrimSpace on those items
TrimSpace == ("" :> "") @@ (" a " :> "a") @@ ("b" :> "b")

\* strings.Split(header, ","): never empty, one item for a header without comma
RawAnswers == UNION {[1..n -> RawItems] : n \in 1..MaxRawLen}

\* the lists a caller passes to Update
UpdateLists == {<<>>, <<"a">>, <<"b", "a">>}

SelectModes == {"RandomSelect", "RoundRobinSelect", "HashRingSelect"}

NoCall == [op |-> "none", failed |-> FALSE, contacted |-> FALSE, answer |-> <<>>,
           err |-> "nil", sel |-> "", all |-> <<>>]

\* NewMyRegistryDiscovery: empty list, zero lastUpdate, a timeout that is not
\* zero, index drawn at random
InitDisc ==
    /\ dnow = 0
    /\ dTimeout \in 1..MaxTTL
    /\ dServers = <<>>
    /\ dLastUpdate = ZeroTime
    /\ dIndex \in 0..2
    /\ dLast = NoCall

\* Refresh that keeps the items as strings.Split cut them
ParseServersRaw(raw) == raw

\* Refresh: the loop that appends strings.TrimSpace(server) when it is not ""
ParseServers(raw) ==
    LET trimmed == [i \in DOMAIN raw |-> TrimSpace[raw[i]]]
    IN  SelectSeq(trimmed, LAMBDA x : x # "")

\* Refresh: d.lastUpdate.Add(d.timeout).After(time.Now())
StillFresh == dLastUpdate + dTimeout > dnow

\* the answers http.Get(d.registry) can give: an error, or a response with
\* X-Myrpc-Servers; no request is made while the list is fresh
RegistryOutcomes ==
    IF StillFresh
      THEN {[failed |-> FALSE, contacted |-> FALSE, answer |-> <<>>]}
      ELSE {[failed |-> TRUE, contacted |-> TRUE, answer |-> <<>>]}
             \cup {[failed |-> FALSE, contacted |-> TRUE, answer |-> a] : a \in RawAnswers}

\* Refresh with outcome o: what it does to d.servers and d.lastUpdate
RefreshTo(o) ==
    IF o.contacted /\ ~o.failed
      THEN /\ dServers' = ParseServers(o.answer)
           /\ dLastUpdate' = dnow
      ELSE UNCHANGED <<dServers, dLastUpdate>>

\* time passes on the discovery's host
DiscTick ==
    /\ dnow < MaxDiscTime
    /\ dnow' = dnow + 1
    /\ UNCHANGED <<notDisc, dTimeout, dServers, dLastUpdate, dIndex, dLast>>

\* MyRegistryDiscovery.Update
DiscUpdate ==
    /\ \E l \in UpdateLists :
         /\ dServers' = l
         /\ dLast' = [NoCall EXCEPT !.op = "Update", !.all = l]
    /\ dLastUpdate' = dnow
    /\ UNCHANGED <<notDisc, dnow, dTimeout, dIndex>>

\* MyRegistryDiscovery.Refresh
DiscRefresh ==
    /\ \E o \in RegistryOutcomes :
         /\ RefreshTo(o)
         /\ dLast' = [NoCall EXCEPT !.op = "Refresh", !.failed = o.failed,
                                    !.contacted = o.contacted, !.answer = o.answer,
                                    !.err = IF o.failed THEN "registry" ELSE "nil"]
    /\ UNCHANGED <<notDisc, dnow, dTimeout, dIndex>>

\* MyRegistryDiscovery.Get: Refresh, then MultiServersDiscovery.Get(mode)
DiscGet ==
    /\ \E o \in RegistryOutcomes, mode \in SelectModes :
         /\ RefreshTo(o)
         /\ LET n == Len(dServers')
                call == [NoCall EXCEPT !.op = "Get", !.failed = o.failed,
                                       !.contacted = o.contacted, !.answer = o.answer]
            IN  IF o.failed
                  THEN /\ dLast' = [call EXCEPT !.err = "registry"]
                       /\ UNCHANGED dIndex
                  ELSE IF n = 0
                    THEN /\ dLast' = [call EXCEPT !.err = "no available servers"]
                         /\ UNCHANGED dIndex
                  ELSE IF mode = "RandomSelect"
                    THEN /\ \E i \in 1..n : dLast' = [call EXCEPT !.sel = dServers'[i]]
                         /\ UNCHANGED dIndex
                  ELSE IF mode = "RoundRobinSelect"
                    THEN /\ dLast' = [call EXCEPT !.sel = dServers'[(dIndex % n) + 1]]
                         /\ dIndex' = (dIndex + 1) % n
                  ELSE /\ dLast' = [call EXCEPT !.err = "not supported select mode"]
                       /\ UNCHANGED dIndex
    /\ UNCHANGED <<notDisc, dnow, dTimeout>>

\* MyRegistryDiscovery.GetAll: Refresh, then a copy of d.servers
DiscGetAll ==
    /\ \E o \in RegistryOutcomes :
         /\ RefreshTo(o)
         /\ dLast' = [NoCall EXCEPT !.op = "GetAll", !.failed = o.failed,
                                    !.contacted = o.contacted, !.answer = o.answer,
                                    !.err = IF o.failed THEN "registry" ELSE "nil",
                                    !.all = IF o.failed THEN <<>> ELSE dServers']
    /\ UNCHANGED <<notDisc, dnow, dTimeout, dIndex>>

NextDisc ==
    \/ DiscTick
    \/ DiscUpdate
    \/ DiscRefresh
    \/ DiscGet
    \/ DiscGetAll

(* ------------------------------ MultiServersDiscovery ----------------- *)
\* values of d.r.Intn(math.MaxInt32 - 1)
InitialIndexes == {0, 1, 2, 7, 2147483645}
\* the lists NewMultiServerDiscovery and Update are given
MsLists == {<<>>, <<"a">>, <<"a", "b">>, <<"a", "b", "c">>}

NoMsCall == [op |-> "none", mode |-> "", err |-> "nil", pos |-> 0, sel |-> ""]

\* NewMultiServerDiscovery(servers)
InitMsd ==
    /\ msServers \in MsLists
    /\ msIndex \in InitialIndexes
    /\ msHist = <<>>
    /\ msLast = NoMsCall
    /\ msOps = 0

\* RoundRobinSelect that does not advance the index
NextIndexStuck(i, n) == i % n

\* d.index = (d.index + 1) % n
NextIndex(i, n) == (i + 1) % n

\* MultiServersDiscovery.Update
MsUpdate ==
    /\ msOps < MaxMsOps
    /\ msOps' = msOps + 1
    /\ \E l \in MsLists :
         /\ msServers' = l
         /\ msLast' = [NoMsCall EXCEPT !.op = "Update"]
    /\ msHist' = <<>>
    /\ UNCHANGED <<notMsd, msIndex>>

\* MultiServersDiscovery.Get(mode)
MsGet ==
    /\ msOps < MaxMsOps
    /\ msOps' = msOps + 1
    /\ \E mode \in SelectModes :
         LET n == Len(msServers)
             call == [NoMsCall EXCEPT !.op = "Get", !.mode = mode]
         IN  IF n = 0
               THEN /\ msLast' = [call EXCEPT !.err = "no available servers"]
                    /\ UNCHANGED <<msIndex, msHist>>
             ELSE IF mode = "RandomSelect"
               THEN /\ \E i \in 1..n : msLast' = [call EXCEPT !.pos = i, !.sel = msServers[i]]
                    /\ UNCHANGED <<msIndex, msHist>>
             ELSE IF mode = "RoundRobinSelect"
               THEN /\ msLast' = [call EXCEPT !.pos = (msIndex % n) + 1,
                                              !.sel = msServers[(msIndex % n) + 1]]
                    /\ msIndex' = NextIndex(msIndex, n)
                    /\ msHist' = Append(msHist, (msIndex % n) + 1)
             ELSE /\ msLast' = [call EXCEPT !.err = "not supported select mode"]
                  /\ UNCHANGED <<msIndex, msHist>>
    /\ UNCHANGED <<notMsd, msServers>>

NextMsd ==
    \/ MsUpdate
    \/ MsGet

(* ------------------------------ dialTimeout --------------------------- *)
DialCalls == 1..MaxDials

\* DefaultOption: gob, ConnectTimeout 10s
DefaultDialOption == [timeout |-> TRUE, codec |-> GobType]
\* the Options a caller passes: ConnectTimeout zero or not, any codec identifier
DialOptions == [timeout : BOOLEAN, codec : CodecTypes \cup {OtherCodec, ""}]

NoDialRet == [client |-> FALSE, err |-> "none"]

\* parseOptions: no Option gives DefaultOption, more than one is an error, an
\* empty CodecType becomes the default one
ParseDialOptions(n, opt) ==
    IF n = 0 THEN [opt |-> DefaultDialOption, err |-> "nil"]
    ELSE IF n # 1 THEN [opt |-> DefaultDialOption, err |-> "options"]
    ELSE [opt |-> [timeout |-> opt.timeout,
                   codec |-> IF opt.codec = "" THEN DefaultDialOption.codec ELSE opt.codec],
          err |-> "nil"]

\* the deferred function with a check that never sees the error
DeferClosesNever(err) == FALSE

\* defer func() { if err != nil { _ = conn.Close() } }()
DeferCloses(err) == err # "nil"

InitDial ==
    /\ dtOpt = [d \in DialCalls |-> DefaultDialOption]
    /\ dtpc = [d \in DialCalls |-> "start"]
    /\ dtf = [d \in DialCalls |-> "none"]
    /\ dtfRes = [d \in DialCalls |-> "none"]
    /\ dtRet = [d \in DialCalls |-> NoDialRet]
    /\ dtConn = [d \in DialCalls |-> "none"]

\* dialTimeout up to the goroutine: parseOptions, net.DialTimeout, the defer,
\* ch := make(chan clientResult), go func() { ... }()
DtBegin(d) ==
    /\ dtpc[d] = "start"
    /\ \E n \in 0..2, o \in DialOptions, connected \in BOOLEAN :
         LET po == ParseDialOptions(n, o) IN
         IF po.err # "nil"
           THEN /\ dtRet' = [dtRet EXCEPT ![d] = [client |-> FALSE, err |-> po.err]]
                /\ dtpc' = [dtpc EXCEPT ![d] = "returned"]
                /\ UNCHANGED <<dtOpt, dtf, dtConn>>
           ELSE IF ~connected
             THEN /\ dtRet' = [dtRet EXCEPT ![d] = [client |-> FALSE, err |-> "connect"]]
                  /\ dtpc' = [dtpc EXCEPT ![d] = "returned"]
                  /\ dtOpt' = [dtOpt EXCEPT ![d] = po.opt]
                  /\ UNCHANGED <<dtf, dtConn>>
             ELSE /\ dtOpt' = [dtOpt EXCEPT ![d] = po.opt]
                  /\ dtConn' = [dtConn EXCEPT ![d] = "open"]
                  /\ dtf' = [dtf EXCEPT ![d] = "run"]
                  /\ dtpc' = [dtpc EXCEPT ![d] = "wait"]
                  /\ UNCHANGED dtRet
    /\ UNCHANGED <<notDial, dtfRes>>

\* the goroutine: client, err := f(conn, opt) returns.  NewClient fails on a
\* codec that is not registered; it fails and closes the connection when the
\* Option cannot be written; otherwise it returns the client.  The goroutine
\* then stands at ch <- clientResult{...}.
DtNegotiate(d) ==
    /\ dtf[d] = "run"
    /\ IF ~CodecKnown(dtOpt[d].codec)
         THEN /\ dtfRes' = [dtfRes EXCEPT ![d] = "codecErr"]
              /\ UNCHANGED dtConn
         ELSE \E written \in BOOLEAN :
                IF written
                  THEN /\ dtfRes' = [dtfRes EXCEPT ![d] = "client"]
                       /\ UNCHANGED dtConn
                  ELSE /\ dtfRes' = [dtfRes EXCEPT ![d] = "encodeErr"]
                       /\ dtConn' = [dtConn EXCEPT ![d] = "closed"]
    /\ dtf' = [dtf EXCEPT ![d] = "send"]
    /\ UNCHANGED <<notDial, dtOpt, dtpc, dtRet>>

\* result := <-ch (alone, or as a case of the select);
\* return result.client, result.err; then the deferred function
DtReceive(d) ==
    /\ dtpc[d] = "wait"
    /\ dtf[d] = "send"
    /\ LET err == IF dtfRes[d] = "client" THEN "nil" ELSE dtfRes[d] IN
         /\ dtRet' = [dtRet EXCEPT ![d] = [client |-> dtfRes[d] = "client", err |-> err]]
         /\ dtConn' = IF DeferCloses(err) THEN [dtConn EXCEPT ![d] = "closed"] ELSE dtConn
    /\ dtf' = [dtf EXCEPT ![d] = "done"]
    /\ dtpc' = [dtpc EXCEPT ![d] = "returned"]
    /\ UNCHANGED <<notDial, dtOpt, dtfRes>>

\* case <-time.After(opt.ConnectTimeout): return nil, "connect timeout"; then
\* the deferred function.  The select is reached only when ConnectTimeout != 0.
\* The goroutine is not told: it stays in f, and later at ch <-, for ever.
DtTimeout(d) ==
    /\ dtpc[d] = "wait"
    /\ dtOpt[d].timeout
    /\ dtRet' = [dtRet EXCEPT ![d] = [client |-> FALSE, err |-> "timeout"]]
    /\ dtConn' = IF DeferCloses("timeout") THEN [dtConn EXCEPT ![d] = "closed"] ELSE dtConn
    /\ dtpc' = [dtpc EXCEPT ![d] = "returned"]
    /\ UNCHANGED <<notDial, dtOpt, dtf, dtfRes>>

NextDial ==
    \/ \E d \in DialCalls : DtBegin(d)
    \/ \E d \in DialCalls : DtNegotiate(d)
    \/ \E d \in DialCalls : DtReceive(d)
    \/ \E d \in DialCalls : DtTimeout(d)

vars == <<clientVars, serverVars, bcastVars, restVars>>

NextClient ==
    \/ \E c \in Callers : SendRegister(c)
    \/ \E c \in Callers : SendWriteOk(c)
    \/ \E c \in Callers : SendWriteErr(c)
    \/ \E c \in Callers : SendWriteErrRemove(c)
    \/ \E c \in Callers : CallDone(c)
    \/ \E c \in Callers : CallCtx(c)
    \/ Close
    \/ RecvHeader
    \/ RecvReadErr
    \/ RecvBody
    \/ TermLock
    \/ TermVisit
    \/ TermUnlock

\* the subsystems that a specification does not move stay at one constructed state
IdleClient == InitClient
IdleServer == InitServer /\ handleTimeout = FALSE
IdleBcast == InitBcast /\ servers = 1 /\ replyNil = FALSE
IdleReg == InitReg /\ regTimeout = 0
IdleRing == InitRing
IdlePool == InitPool
IdleConn == InitConn
IdleDisc == InitDisc /\ dTimeout = 1 /\ dIndex = 0
IdleDial == InitDial
IdleMsd == InitMsd /\ msServers = <<>> /\ msIndex = 0
IdleRest == IdleReg /\ IdleRing /\ IdlePool /\ IdleConn /\ IdleDisc /\ IdleDial /\ IdleMsd

\* one client and its peer
StartClient == InitClient /\ IdleServer /\ IdleBcast /\ IdleRest
SpecClient == StartClient /\ [][NextClient]_vars

\* one server connection
StartServer == InitServer /\ IdleClient /\ IdleBcast /\ IdleRest
SpecServer == StartServer /\ [][NextServer]_vars

\* one Broadcast invocation
StartBcast == InitBcast /\ IdleClient /\ IdleServer /\ IdleRest
SpecBroadcast == StartBcast /\ [][NextBcast]_vars

\* one registry
StartReg ==
    InitReg /\ IdleClient /\ IdleServer /\ IdleBcast /\ IdleRing /\ IdlePool /\ IdleConn /\ IdleDisc /\ IdleDial /\ IdleMsd
SpecRegistry == StartReg /\ [][NextReg]_vars

\* one hash ring
StartRing ==
    InitRing /\ IdleClient /\ IdleServer /\ IdleBcast /\ IdleReg /\ IdlePool /\ IdleConn /\ IdleDisc /\ IdleDial /\ IdleMsd
SpecRing == StartRing /\ [][NextRing]_vars

\* one XClient pool
StartPool ==
    InitPool /\ IdleClient /\ IdleServer /\ IdleBcast /\ IdleReg /\ IdleRing /\ IdleConn /\ IdleDisc /\ IdleDial /\ IdleMsd
SpecPool == StartPool /\ [][NextPool]_vars

\* the connections of one server
StartConn ==
    InitConn /\ IdleClient /\ IdleServer /\ IdleBcast /\ IdleReg /\ IdleRing /\ IdlePool /\ IdleDisc /\ IdleDial /\ IdleMsd
SpecConn == StartConn /\ [][NextConn]_vars

\* one registry-backed discovery
StartDisc ==
    InitDisc /\ IdleClient /\ IdleServer /\ IdleBcast /\ IdleReg /\ IdleRing /\ IdlePool /\ IdleConn
             /\ IdleDial /\ IdleMsd
SpecDiscovery == StartDisc /\ [][NextDisc]_vars

\* Dial invocations
StartDial ==
    InitDial /\ IdleClient /\ IdleServer /\ IdleBcast /\ IdleReg /\ IdleRing /\ IdlePool /\ IdleConn
             /\ IdleDisc /\ IdleMsd
SpecDial == StartDial /\ [][NextDial]_vars

\* one MultiServersDiscovery
StartMsd ==
    InitMsd /\ IdleClient /\ IdleServer /\ IdleBcast /\ IdleReg /\ IdleRing /\ IdlePool /\ IdleConn
            /\ IdleDisc /\ IdleDial
SpecMultiDiscovery == StartMsd /\ [][NextMsd]_vars

TypeOKClient ==
    /\ \A c \in Callers : fired[c] \in 0..3 /\ doneCh[c] \in 0..BuffSize
    /\ seq \in 1..(NumCalls + 1)

(* ------------------------------ client properties ---------------------- *)
\* the call the client registered under its Seq
Registered(c) == callSeq[c] # 0

\* C2: a Call is sent on its Done channel at most once; a Call that has an
\* outcome (an error or a decoded reply), a Call that Client.Call returned from
\* through Done, and a registered Call that nobody holds any more (not in
\* pending, not in the hands of receive, not abandoned by cancellation) was
\* sent on Done exactly once.
C2_DoneExactlyOnce ==
    \A c \in Callers :
      /\ fired[c] <= 1
      /\ (callError[c] # "nil" \/ callReply[c] # 0) => fired[c] = 1
      /\ cres[c] \notin {"none", "ctx"} => fired[c] = 1
      /\ (Registered(c) /\ callSeq[c] \notin DOMAIN pending /\ rcall # c
            /\ cres[c] # "ctx") => fired[c] = 1

\* C2 witness: one call was completed by terminateCalls with the read error
\* while another was completed by the receive loop with its reply
C2_Witness ==
    \E c1, c2 \in Callers :
      /\ c1 # c2
      /\ fired[c1] = 1 /\ callError[c1] = "readErr"
      /\ fired[c2] = 1 /\ callReply[c2] = c2 /\ cres[c2] = "nil"

\* C3: the Seqs of the registered calls are exactly 1..seq-1 without
\* repetition; the pending map files each call under its own Seq; the call the
\* receive loop takes for a header is the call registered with the header's
\* Seq; and a reply decoded into a call is the reply to that call's request.
C3_SeqMatching ==
    /\ {callSeq[c] : c \in {d \in Callers : Registered(d)}} = 1..(seq - 1)
    /\ \A c, d \in Callers : (Registered(c) /\ c # d) => callSeq[c] # callSeq[d]
    /\ \A s \in DOMAIN pending : callSeq[pending[s]] = s
    /\ rcall # 0 => callSeq[rcall] = rh.seq
    /\ \A c \in Callers : callReply[c] \in {0, c}

\* C3 witness: two calls are on the wire and the second one got its reply
\* while the first is still pending (responses out of order)
C3_Witness ==
    \E c1, c2 \in Callers :
      /\ callSeq[c1] = 1 /\ callSeq[c2] = 2
      /\ 1 \in DOMAIN pending /\ fired[c1] = 0
      /\ callReply[c2] = c2 /\ fired[c2] = 1

\* C5: the step in which Call returns the context error leaves the call out of
\* pending and changes neither closing, shutdown nor the codec; a header that
\* receive reads for the Seq of a cancelled call finds no call; and the body of
\* a response without a call is drained without touching any call, after which
\* the loop reads the next header.
C5_CancelKeepsClient ==
    /\ [][\A c \in Callers :
            (cres[c] # "ctx" /\ cres'[c] = "ctx") =>
               /\ callSeq[c] \notin DOMAIN pending'
               /\ closing' = closing /\ shutdown' = shutdown
               /\ ccCloses' = ccCloses]_vars
    /\ [][(rpc = "readHeader" /\ rpc' = "body"
             /\ \E c \in Callers : Registered(c) /\ cres[c] = "ctx" /\ callSeq[c] = rh'.seq)
            => rcall' = 0]_vars
    /\ [][(rpc = "body" /\ rpc' # "body" /\ rcall = 0 /\ rh.kind # "bad") =>
               /\ rpc' = "readHeader"
               /\ fired' = fired /\ doneCh' = doneCh
               /\ callError' = callError /\ callReply' = callReply]_vars

\* C5 witness: a call was cancelled while pending, its late response has been
\* read and drained, the client is still available with its connection open
\* and the loop is reading; a later call got its reply on the same client
C5_Witness ==
    \E c1, c2 \in Callers :
      /\ Registered(c1) /\ cres[c1] = "ctx" /\ fired[c1] = 0
      /\ callSeq[c2] > callSeq[c1] /\ cres[c2] = "nil" /\ callReply[c2] = c2
      /\ rpc = "readHeader"
      /\ rh.seq = callSeq[c1]
      /\ IsAvailable /\ ccCloses = 0

\* C6: the Seqs of the request headers on the wire increase strictly
C6_WireSeqIncreasing ==
    \A i, j \in 1..Len(wire) : i < j => wire[i].seq < wire[j].seq

\* C8 (state part): once receive has ended, the client is shut down and every
\* call still in pending carries the read error and was sent on Done
C8_TerminatedState ==
    rpc = "exited" =>
      /\ shutdown /\ ~IsAvailable
      /\ \A s \in DOMAIN pending :
           callError[pending[s]] = rerr /\ fired[pending[s]] = 1

\* C8: when the receive loop leaves on a read error, terminateCalls runs to its
\* end; from then on the client is shut down for good and every call in pending
\* was completed with that error
C8_TerminateCalls ==
    /\ [](C8_TerminatedState)
    /\ [][shutdown => shutdown']_vars
    /\ (rpc = "terminate") ~> (rpc = "exited")

\* C8 witness: receive has ended on a read error with a call in pending, which
\* was completed with that error
C8_Witness ==
    /\ rpc = "exited" /\ rerr # "nil"
    /\ \E s \in DOMAIN pending : callError[pending[s]] = rerr /\ fired[pending[s]] = 1

\* C9: the first Close sets closing and closes the codec once; a Close on a
\* closing client returns ErrShutdown and closes nothing; closing never goes
\* back, so the client is unavailable from the first Close on; a Go/Call that
\* starts on a closing client is completed once with ErrShutdown and is not
\* registered.
C9_CloseIdempotent ==
    /\ [][closeCalls' # closeCalls =>
            IF closing
              THEN closeRet' = "ErrShutdown" /\ ccCloses' = ccCloses /\ closing'
              ELSE closeRet' = "nil" /\ ccCloses' = ccCloses + 1 /\ closing']_vars
    /\ [][closing => (closing' /\ ~IsAvailable')]_vars
    /\ [][\A c \in Callers :
            (closing /\ cpc[c] = "start" /\ cpc'[c] # "start") =>
               /\ callError'[c] = "ErrShutdown" /\ fired'[c] = 1
               /\ pending' = pending]_vars
    /\ [](\A c \in Callers :
            (~Registered(c) /\ cpc[c] # "start") =>
               callError[c] = "ErrShutdown" /\ fired[c] = 1)

\* C9 witness: Close was called twice, the second returned ErrShutdown, the
\* codec was closed once, and a Call made afterwards returned ErrShutdown
C9_Witness ==
    /\ closeCalls = 2 /\ closeRet = "ErrShutdown" /\ ccCloses = 1 /\ closing
    /\ \E c \in Callers : ~Registered(c) /\ cres[c] = "ErrShutdown"

\* C23: the step of send that follows a failed write leaves the call's Seq out
\* of pending; when the call was still in pending, the step sets its Error to
\* the write error and sends it on Done, for the first time; when receive had
\* taken the call already (or the call was never registered), the step
\* completes no call; no call is ever sent on Done twice.
C23_WriteFailureCompletesOnce ==
    /\ [][\A c \in Callers :
            (cpc[c] = "writeFailed" /\ cpc'[c] # "writeFailed") =>
              /\ callSeq[c] \notin DOMAIN pending'
              /\ IF callSeq[c] \in DOMAIN pending
                   THEN /\ callError'[c] = "writeErr"
                        /\ fired[c] = 0 /\ fired'[c] = 1
                        /\ \A d \in Callers \ {c} : fired'[d] = fired[d]
                   ELSE /\ fired' = fired /\ doneCh' = doneCh
                        /\ callError' = callError]_vars
    /\ [](\A c \in Callers : fired[c] <= 1)

\* C23 witness: one call was completed by send with the write error; for
\* another the write failed too, but receive had taken it for an early
\* response and completed it, and send has returned without completing it
C23_Witness ==
    \E c1, c2 \in Callers :
      /\ c1 # c2
      /\ Registered(c1) /\ Registered(c2)
      /\ cpc[c1] \in {"wait", "returned"} /\ callError[c1] = "writeErr" /\ fired[c1] = 1
      /\ cpc[c2] \in {"wait", "returned"} /\ callError[c2] = "srvErr" /\ fired[c2] = 1
      /\ \E i \in 1..Len(wire) : wire[i].seq = callSeq[c2] /\ ~wire[i].body

\* C30: a Go/Call that finds the client closing or shut down writes no request:
\* no header with Seq 0 reaches the wire, and the step that refuses the call
\* completes it with ErrShutdown and leaves pending and seq as they were.
C30_RefusedCallWritesNothing ==
    /\ [][\A c \in Callers :
            (cpc[c] = "start" /\ cpc'[c] # "start" /\ (closing \/ shutdown)) =>
               /\ callError'[c] = "ErrShutdown" /\ fired'[c] = 1
               /\ pending' = pending /\ seq' = seq]_vars
    /\ [](\A i \in 1..Len(wire) : wire[i].seq # 0)

\* the scheduler never stops while some goroutine of the client can take a step
FairSpecClient == SpecClient /\ WF_vars(NextClient)

\* C27: with BuffSize >= 1, whenever receive is about to complete the call it
\* took, and whenever terminateCalls still has calls to visit, the Done channel
\* of each such call has room, so call.done() does not block; and neither of
\* the two mutexes is held for ever: each is free again and again.
C27_DeliveryNeverBlocks ==
    /\ []((rpc = "body" /\ rcall # 0) => CanDone(rcall))
    /\ [](rpc = "termLoop" => \A c \in termTodo : CanDone(c))
    /\ []<>(mu = 0)
    /\ []<>(sending = 0)

\* C27 witness: receive took a call for its response, the caller abandoned the
\* call through its context, and receive delivered the completion all the
\* same; nobody will read it, and receive is reading the next header with both
\* mutexes free
C27_Witness ==
    \E c \in Callers :
      /\ cres[c] = "ctx" /\ fired[c] = 1 /\ doneCh[c] = 1
      /\ rpc = "readHeader" /\ mu = 0 /\ sending = 0

(* ------------------------------ server properties ---------------------- *)
\* positions in out of the response headers written for Seq s
RespHdrs(s) == {i \in 1..Len(out) : out[i].kind = "hdr" /\ out[i].seq = s}

\* C1: for a request whose timer expired while its handler was still running,
\* the only response ever written for its Seq is the timeout response of
\* handleRequest; the handler's goroutine writes nothing for it.
C1_TimeoutSuppressesHandler ==
    \A t \in timedOutRunning :
      /\ Cardinality(RespHdrs(t)) <= 1
      /\ \A i \in RespHdrs(t) : out[i].w = HReq(t)

\* C4: the server consumes the body of a request that names an unknown service
\* or method, so the error response is sent with the stream at a message
\* boundary and the next readRequest starts at a header.
C4_UnknownServiceKeepsFraming ==
    spc \in {"respond", "respondBody", "readHeader"} => bodyPending = "none"

\* writers that have written their header and not yet their body
InBody ==
    {HCall(t) : t \in {u \in Reqs : gpc[u] = "sendBody"}}
      \cup {HReq(t) : t \in {u \in Reqs : hpc[u] = "sendBody"}}
      \cup (IF spc = "respondBody" THEN {LoopW} ELSE {})

\* C7: at most one writer is between its header and its body, and it holds the
\* sending mutex; on the connection every body frame directly follows the
\* header frame of its writer and every header frame is directly followed by
\* the body frame of its writer, unless it is the last frame written.
C7_PairsContiguous ==
    /\ Cardinality(InBody) <= 1
    /\ \A w \in InBody : srvSending = w
    /\ \A i \in 1..Len(out) :
         /\ out[i].kind = "hdr" =>
              \/ i = Len(out)
              \/ out[i + 1].kind = "body" /\ out[i + 1].w = out[i].w
         /\ out[i].kind = "body" =>
              i > 1 /\ out[i - 1].kind = "hdr" /\ out[i - 1].w = out[i].w

\* C7 witness: a handler goroutine is between its header and its body while the
\* timeout response of another request and the goroutine of that request both
\* wait for the mutex
C7_Witness ==
    \E t, u \in Reqs :
      /\ t # u
      /\ srvSending = HCall(t) /\ gpc[t] = "sendBody"
      /\ out # <<>> /\ out[Len(out)].kind = "hdr" /\ out[Len(out)].w = HCall(t)
      /\ hpc[u] = "send" /\ hErr[u] = "timeout"
      /\ gpc[u] = "send"

\* C18: the request loop closes the codec only when no handler goroutine has
\* a response left to write: every step in which a handler goroutine writes
\* the header or the body of its response happens on a codec that serverCodec
\* has not closed.
C18_NoHandlerWriteAfterClose ==
    [][\A t \in Reqs :
         (gpc[t] \in {"send", "sendBody"} /\ gpc'[t] # gpc[t]) => ~srvClosed]_vars

\* C22: with a non-zero HandleTimeout, a request whose handler returned and
\* wrote its result before the timer expired (its context is ended by the
\* handler's cancel, not by the timer) gets one response, the one the handler's
\* goroutine wrote; handleRequest writes no timeout response for its Seq.
C22_HandlerResultOnly ==
    \A t \in Reqs :
      (handleTimeout /\ gres[t] = "ok" /\ ctx[t] = "cancelled") =>
        /\ Cardinality(RespHdrs(t)) <= 1
        /\ \A i \in RespHdrs(t) : out[i].w = HCall(t)

\* C26: once the loop has answered a request whose body did not decode, it
\* reads no further request on the connection.
C26_BodyErrorEndsLoop ==
    [][(\E i \in 1..Len(out) : out[i].kind = "body" /\ out[i].err = "body" /\ out[i].w = LoopW)
         => nreq' = nreq]_vars

\* the scheduler never stops while some goroutine of the server can take a step
FairSpecServer == SpecServer /\ WF_vars(NextServer)

\* C29: with HandleTimeout zero, once the loop has left on EOF and the method
\* of every dispatched request has returned and its response is written, the
\* WaitGroup reaches zero and serverCodec closes the codec.
C29_ShutdownTerminates ==
    (~handleTimeout /\ spc = "wait" /\ \A t \in Reqs : gpc[t] \in {"none", "done"})
      ~> (wg = 0 /\ srvClosed)

(* ------------------------------ Broadcast properties ------------------- *)
\* endpoints whose xc.call returned nil / returned an error
Succeeded == {i \in 1..servers : berr[i] = "nil"}
FailedEps == {i \in 1..servers : berr[i] \in {"fail", "ctx"}}

C24_FirstReplyFirstError ==
    /\ [][reply' # reply =>
            /\ reply = 0 /\ ~replyNil
            /\ \E i \in 1..servers :
                 /\ reply' = i /\ bmu = i /\ bpc[i] = "record" /\ berr[i] = "nil"
                 /\ \A j \in 1..servers : bpc[j] = "done" => berr[j] # "nil"]_vars
    /\ [][e' # e =>
            /\ e = 0
            /\ \E i \in 1..servers :
                 /\ e' = i /\ bmu = i /\ bpc[i] = "record" /\ berr[i] \in {"fail", "ctx"}
                 /\ \A j \in 1..servers : bpc[j] = "done" => berr[j] = "nil"
            /\ bctx' = "cancelled"]_vars
    /\ [][\A i \in 1..servers :
            (berr[i] = "none" /\ berr'[i] = "ctx") => bctx = "cancelled"]_vars
    /\ [](bret # Running =>
            /\ bret = e
            /\ \A i \in 1..servers : bpc[i] = "done")

\* C24 witness: Broadcast returned the error of the endpoint that failed
\* first; the call of another endpoint, still running at that moment,
\* returned the context error; a third one had succeeded and its reply is the
\* caller's
C24_Witness ==
    \E i, j, k \in 1..servers :
      /\ berr[i] = "fail" /\ berr[j] = "ctx" /\ berr[k] = "nil"
      /\ e = i /\ bret = i /\ reply = k

(* ------------------------------ registry properties -------------------- *)
\* addresses of the last answer
Answered == {regAnswer[i] : i \in DOMAIN regAnswer}

\* C11: with timeout T > 0, the answer to a GET served at instant n lists an
\* address iff its last heartbeat was at some t with n < t + T; the list is
\* ascending without repetition; after the GET the table holds exactly the
\* listed addresses; and an address enters the table only by a POST for it.
C11_AliveIffFresh ==
    /\ []((regTimeout > 0 /\ regReq.m = "GET") =>
            /\ \A a \in Addrs :
                 a \in Answered <=> (lastBeat[a] # NoBeat /\ regAt < lastBeat[a] + regTimeout)
            /\ \A i, j \in DOMAIN regAnswer : i < j => regAnswer[i] < regAnswer[j]
            /\ DOMAIN regServers = Answered)
    /\ [][\A a \in Addrs :
            (a \notin DOMAIN regServers /\ a \in DOMAIN regServers') =>
               (regReq' = [m |-> "POST", addr |-> a] /\ regServers'[a] = now)]_vars

\* C11 witness: a GET has just answered with one address while another, whose
\* heartbeat is too old, was dropped from the table
C11_Witness ==
    /\ regTimeout > 0 /\ regReq.m = "GET" /\ regAt = now
    /\ \E a, b \in Addrs :
         /\ a # b
         /\ regAnswer = <<a>>
         /\ lastBeat[b] # NoBeat /\ b \notin DOMAIN regServers

\* C19: a request step (the clock does not move) for a POST without
\* X-Myrpc-Server answers 500 and one for a method other than GET and POST
\* answers 405, both with the table as it was; a POST with the header answers
\* without an error status, leaves the table with the address stamped with the
\* present instant and with every other entry as it was.
C19_HandlerFrame ==
    [][now' = now =>
         /\ (regReq'.m = "POST" /\ regReq'.addr = 0) =>
               (regStatus' = 500 /\ regServers' = regServers)
         /\ regReq'.m \notin {"GET", "POST"} =>
               (regStatus' = 405 /\ regServers' = regServers)
         /\ (regReq'.m = "POST" /\ regReq'.addr # 0) =>
               /\ regStatus' = 200
               /\ DOMAIN regServers' = DOMAIN regServers \cup {regReq'.addr}
               /\ regServers'[regReq'.addr] = now
               /\ \A b \in DOMAIN regServers :
                    b # regReq'.addr => regServers'[b] = regServers[b]]_vars

\* C19 witness: a POST without the header was answered 500 while the table
\* holds two addresses stamped at different instants, one of them refreshed
C19_Witness ==
    /\ regReq = [m |-> "POST", addr |-> 0] /\ regStatus = 500
    /\ \E a, b \in DOMAIN regServers :
         /\ regServers[a] < regServers[b]
         /\ regServers[b] = now /\ now > 1

(* ------------------------------ hash ring properties ------------------- *)
\* the ring entries: the keys of the key-to-backend map
RingEntries == DOMAIN ringNodes

\* indexes of the slice whose entry maps to backend b
SliceEntriesOf(b) == {i \in DOMAIN ringSorted : MapGet(ringNodes, ringSorted[i]) = b}

\* C12: the sorted slice is ascending and holds exactly the keys of the map
\* (each key once), and every backend in the ring has exactly ReplicateCount
\* entries of the slice mapping to it.
C12_RingInvariant ==
    /\ \A i, j \in DOMAIN ringSorted : i < j => ringSorted[i] <= ringSorted[j]
    /\ {ringSorted[i] : i \in DOMAIN ringSorted} = RingEntries
    /\ Len(ringSorted) = Cardinality(RingEntries)
    /\ \A b \in ringMembers : Cardinality(SliceEntriesOf(b)) = ReplicateCount

\* the least element of a non-empty set of ring entries
MinEntry(S) == CHOOSE x \in S : \A y \in S : x <= y

\* the backend that owns key on the present ring
OwnerOf(key) ==
    IF ringMembers = {} THEN ""
    ELSE LET greater == {k \in RingEntries : k > HashKey[key]}
         IN  IF greater # {} THEN ringNodes[MinEntry(greater)]
             ELSE IF RingEntries # {} THEN ringNodes[MinEntry(RingEntries)]
             ELSE "none"

\* C13: GetNode(key) returns "" on a ring without backends; on a ring with
\* backends it returns the backend of the smallest ring entry strictly greater
\* than hashKey(key), and the backend of the smallest entry when none is.
C13_GetNodeOwner ==
    [][(ringLast'.op = "GetNode" /\ ringOps' # ringOps) =>
          ringLast'.ret = OwnerOf(ringLast'.arg)]_vars

\* C28: on a ring that holds at least one backend, GetNode returns a backend
\* that is in the ring: never "" and never a backend that was removed.
C28_GetNodeReturnsMember ==
    [][(ringLast'.op = "GetNode" /\ ringOps' # ringOps /\ ringMembers # {}) =>
          ringLast'.ret \in ringMembers]_vars

(* ------------------------------ XClient pool properties ---------------- *)
\* C14: no goroutine holds xc.mu while it waits for XDial.
C14_NoDialUnderPoolMutex ==
    \A t \in Dialers : ~(xmu = t /\ xpc[t] = "xdial")

\* clients that XDial created and nobody closed
LiveClients == {c \in ClientIds : clAddr[c] # 0 /\ ~clClosing[c]}

\* C15: a dial that finds an available cached client returns it and neither
\* dials nor changes the pool; a dial that finds an unavailable cached client
\* closes it and removes it before it dials; while a goroutine dials an
\* address the pool has no entry for it; a successful dial caches and returns
\* the fresh client, a failed dial returns the error and leaves no entry for
\* the address; at most one client that is not closed exists per address, and
\* it is the one the pool holds.
C15_DialKeepsPool ==
    /\ [][\A t \in Dialers :
            xcalls'[t] # xcalls[t] =>
              LET a == xaddr'[t] IN
                IF a \in DOMAIN xclients /\ ClAvailable(xclients[a])
                  THEN /\ xret'[t] = xclients[a] /\ xpc'[t] = "ret"
                       /\ xclients' = xclients /\ nextClient' = nextClient
                  ELSE /\ xpc'[t] = "xdial"
                       /\ a \notin DOMAIN xclients'
                       /\ a \in DOMAIN xclients => clClosing'[xclients[a]]]_vars
    /\ [][\A t \in Dialers :
            (xpc[t] = "xdial" /\ xpc'[t] = "ret") =>
              IF xret'[t] = DialErr
                THEN xaddr[t] \notin DOMAIN xclients'
                ELSE /\ xret'[t] \notin LiveClients /\ xret'[t] \in LiveClients'
                     /\ xclients'[xaddr[t]] = xret'[t]]_vars
    /\ [](\A t \in Dialers : xpc[t] = "xdial" => xaddr[t] \notin DOMAIN xclients)
    /\ [](\A c \in LiveClients : clAddr[c] \in DOMAIN xclients /\ xclients[clAddr[c]] = c)

\* C15 witness: a goroutine got the cached client of an address back from
\* dial, after an earlier client of that address had failed and was closed by
\* the dial that replaced it, and after a dial to the other address failed
C15_Witness ==
    \E t, u \in Dialers, c, d \in ClientIds :
      /\ t # u /\ c # d
      /\ clAddr[c] = clAddr[d] /\ clAddr[c] # 0
      /\ clShutdown[c] /\ clClosing[c]
      /\ clAddr[d] \in DOMAIN xclients /\ xclients[clAddr[d]] = d /\ ClAvailable(d)
      /\ xpc[t] = "ret" /\ xret[t] = d /\ nextClient = d + 1
      /\ xpc[u] = "ret" /\ xret[u] = DialErr /\ xaddr[u] # clAddr[d]
      /\ DialsStarted(NumDialers) = 4

(* ------------------------------ negotiation properties ----------------- *)
\* the preamble of connection k is an Option with the magic number and a
\* registered codec identifier
GoodPreamble(k) ==
    /\ preamble[k].kind = "json"
    /\ "MagicNumber" \in DOMAIN preamble[k].obj
    /\ preamble[k].obj.MagicNumber = MagicNumber
    /\ "CodecType" \in DOMAIN preamble[k].obj
    /\ preamble[k].obj.CodecType \in DOMAIN NewCodecFuncMap

\* C16: a connection is in the request loop (or was) only if its preamble
\* carries the magic number and a registered codec identifier; a connection
\* whose preamble does not is closed by ServerConn with no request read and
\* no response written.
C16_NegotiationGate ==
    \A k \in Conns :
      /\ srvConn[k] \in {"loop", "served"} => GoodPreamble(k)
      /\ (srvConn[k] # "none" /\ ~GoodPreamble(k)) =>
            /\ srvConn[k] = "rejected"
            /\ connClosed[k]
            /\ connRead[k] = 0 /\ connWritten[k] = 0

\* C16 witness: one connection was rejected for its magic number, one for its
\* codec identifier, and one was accepted and has served a request
C16_Witness ==
    \E k1, k2, k3 \in Conns :
      /\ srvConn[k1] = "rejected" /\ srvOpt[k1].MagicNumber = OtherMagic
      /\ srvOpt[k1].CodecType = GobType
      /\ srvConn[k2] = "rejected" /\ srvOpt[k2].MagicNumber = MagicNumber
      /\ srvOpt[k2].CodecType = OtherCodec
      /\ srvConn[k3] = "loop" /\ connWritten[k3] = 1

\* C17: NewClient accepts an Option that names either codec identifier of the
\* enumeration, and ServerConn takes a connection whose preamble has the magic
\* number and either identifier into the request loop.
C17_BothCodecsRegistered ==
    \A k \in Conns :
      /\ (cliRes[k] # "none" /\ cliOpt[k].CodecType \in CodecTypes) => cliRes[k] = "ok"
      /\ (srvConn[k] # "none" /\ preamble[k].kind = "json"
            /\ srvOpt[k].MagicNumber = MagicNumber
            /\ srvOpt[k].CodecType \in CodecTypes) => srvConn[k] \in {"loop", "served"}

(* ------------------------------ discovery properties ------------------- *)
\* indexes of the items of an answer that are not blank
KeptItems(raw) == {j \in DOMAIN raw : TrimSpace[raw[j]] # ""}

\* the list holds, in order, the trimmed form of each item that is not blank
IsTrimmedListOf(l, raw) ==
    /\ Len(l) = Cardinality(KeptItems(raw))
    /\ \A i \in DOMAIN l :
         \E j \in KeptItems(raw) :
           /\ Cardinality({x \in KeptItems(raw) : x <= j}) = i
           /\ l[i] = TrimSpace[raw[j]]

\* C20: in a step of Refresh, Get or GetAll (the clock does not move): while
\* lastUpdate + timeout > now the registry is not contacted and the list and
\* lastUpdate stay as they were; otherwise the registry is contacted, and
\* either the list becomes the trimmed non-blank items of its answer with
\* lastUpdate set to now, or the GET failed, the call returns that error, the
\* list and lastUpdate stay as they were, and Get/GetAll select nothing.
C20_RefreshFrame ==
    [][(dnow' = dnow /\ dLast'.op \in {"Refresh", "Get", "GetAll"}) =>
         IF dLastUpdate + dTimeout > dnow
           THEN /\ ~dLast'.contacted
                /\ dServers' = dServers /\ dLastUpdate' = dLastUpdate
                /\ dLast'.op = "Refresh" => dLast'.err = "nil"
           ELSE /\ dLast'.contacted
                /\ IF dLast'.failed
                     THEN /\ dLast'.err = "registry"
                          /\ dServers' = dServers /\ dLastUpdate' = dLastUpdate
                          /\ dLast'.sel = "" /\ dLast'.all = <<>> /\ dIndex' = dIndex
                     ELSE /\ IsTrimmedListOf(dServers', dLast'.answer)
                          /\ dLastUpdate' = dnow]_vars

\* C20 witness: a Get was refused with the registry's error while the stale
\* list, which an earlier refresh trimmed out of an answer, is still in place
C20_Witness ==
    /\ dLast.op = "Get" /\ dLast.failed /\ dLast.err = "registry"
    /\ dServers = <<"a", "b">>
    /\ dLastUpdate # ZeroTime /\ dLastUpdate + dTimeout <= dnow

(* ------------------------------ dialTimeout properties ----------------- *)
\* C21: a Dial with a non-zero ConnectTimeout that returns while f has not
\* returned fails with the connect-timeout error; a Dial with ConnectTimeout
\* zero returns only what f returned; every Dial that returns with a connection
\* made and an error has closed the connection, returns no client with an
\* error, and returns the client f made otherwise
C21_DialTimeoutRace ==
    /\ [][\A d \in DialCalls :
            (dtpc[d] = "wait" /\ dtpc'[d] = "returned") =>
              IF dtf[d] = "send" /\ dtf'[d] = "done"
                THEN /\ dtRet'[d].client = (dtfRes[d] = "client")
                     /\ dtRet'[d].err = (IF dtfRes[d] = "client" THEN "nil" ELSE dtfRes[d])
                ELSE /\ dtOpt[d].timeout
                     /\ dtRet'[d] = [client |-> FALSE, err |-> "timeout"]
                     /\ dtConn'[d] = "closed"]_vars
    /\ [](\A d \in DialCalls :
            dtpc[d] = "returned" =>
              /\ dtRet[d].client = (dtRet[d].err = "nil")
              /\ (dtRet[d].err = "timeout" => dtOpt[d].timeout)
              /\ (dtRet[d].err # "nil" /\ dtConn[d] # "none" => dtConn[d] = "closed")
              /\ (dtRet[d].client => dtConn[d] = "open"))

\* C21 witness: one Dial timed out while NewClient was still running and its
\* connection is closed; another, with ConnectTimeout zero, returned the
\* client NewClient made
C21_Witness ==
    \E d, g \in DialCalls :
      /\ dtpc[d] = "returned" /\ dtRet[d].err = "timeout" /\ dtf[d] = "run"
      /\ dtConn[d] = "closed"
      /\ dtpc[g] = "returned" /\ ~dtOpt[g].timeout /\ dtRet[g].client /\ dtConn[g] = "open"

(* ------------------------------ MultiServersDiscovery properties ------- *)
\* C25: the positions RoundRobinSelect returned since the list was set follow
\* each other in cyclic list order, so that any n of them in a row, n the
\* length of the list, are the n positions of the list, each once; a Get that
\* selects uses a position of the current list, also right after an Update to
\* a list of another length, and returns the server at that position; a Get
\* on an empty list or with an unsupported mode returns an error and no
\* server and leaves the index as it was.
C25_RoundRobinCycle ==
    /\ [](LET n == Len(msServers) IN
            /\ \A k \in 1..Len(msHist) : msHist[k] \in 1..n
            /\ \A k \in 1..(Len(msHist) - 1) : msHist[k + 1] = (msHist[k] % n) + 1
            /\ \A k \in 1..(Len(msHist) - n + 1) :
                 n >= 1 => {msHist[j] : j \in k..(k + n - 1)} = 1..n
            /\ (msLast.op = "Get" /\ msLast.err = "nil") =>
                 /\ msLast.pos \in 1..n
                 /\ msLast.sel = msServers[msLast.pos])
    /\ [][(msLast'.op = "Get" /\ msOps' # msOps) =>
            LET n == Len(msServers) IN
            /\ (n = 0 => msLast'.err = "no available servers")
            /\ (n > 0 /\ msLast'.mode \notin {"RandomSelect", "RoundRobinSelect"}
                  => msLast'.err = "not supported select mode")
            /\ (msLast'.err # "nil" => msIndex' = msIndex /\ msLast'.sel = "")
            /\ (n > 0 /\ msLast'.mode = "RoundRobinSelect" =>
                  /\ msLast'.err = "nil"
                  /\ msLast'.pos = (msIndex % n) + 1
                  /\ msIndex' \in 0..(n - 1))]_vars

\* C25 witness: on a list of three servers, three RoundRobinSelect calls in a
\* row returned the three servers in cyclic order, starting in the middle of
\* the list, after an Update had set the list
C25_Witness ==
    /\ msServers = <<"a", "b", "c">>
    /\ msHist = <<2, 3, 1>>
    /\ msLast.op = "Get" /\ msLast.sel = "a"
    /\ msOps = 4

====
